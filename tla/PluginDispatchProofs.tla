------------------------ MODULE PluginDispatchProofs ------------------------
(* The protocol of the request, claim and out files implements a remote     *)
(* call (RemoteCall), for any number of callers and daemons.                *)
EXTENDS PluginDispatch, TLAPS

Working(d) == daemon[d] \in {"claimed", "running", "ran"}

\* A claim file names the daemon that serves its caller.
ServerNamed == \A d \in Daemons : serves[d] # Nobody => claim[serves[d]] = d

\* A request that is there has met no daemon.
RequestUntouched ==
    \A c \in request :
        /\ runs[c] = 0
        /\ out[c] = "none"
        /\ caller[c] \in {"waiting", "reclaiming", "reclaim_failed", "died"}

\* Nor has one of a caller that has still to send it, or took it back.
OwnUntouched ==
    \A c \in Callers :
        caller[c] \in {"new", "local"} =>
            runs[c] = 0 /\ c \notin request /\ claim[c] = Nobody

\* A daemon starts a verb that nobody started, and what it returns is of that run.
ServedOnce ==
    \A d \in Daemons :
        /\ daemon[d] = "claimed" => runs[serves[d]] = 0
        /\ daemon[d] = "running" \/ result[d] = "result" => runs[serves[d]] = 1
        /\ result[d] = "result" => daemon[d] \in {"ran", "written"}
        /\ Working(d) => out[serves[d]] = "none"

ResultsRan ==
    \A c \in Callers : runs[c] <= 1 /\ (out[c] = "result" => runs[c] = 1)

CallInv ==
    /\ TypeOK /\ NoAnswerMissed
    /\ ServerNamed /\ RequestUntouched /\ OwnUntouched /\ ServedOnce /\ ResultsRan

\* One disjunct per action, as Next has them.
LEMMA StepCases ==
    ASSUME [Next]_vars
    PROVE  \/ \E c \in Callers :
                 \/ Send(c) \/ DoWithout(c) \/ TakeAnswer(c) \/ SeeClaimed(c) \/ Overdue(c)
                 \/ Reclaim(c) \/ ReclaimFails(c) \/ OwnerDead(c) \/ GiveUp(c)
                 \/ RunLocally(c) \/ Tick(c) \/ Die(c)
           \/ \E d \in Daemons :
                 \/ Decline(d) \/ Run(d) \/ Return(d) \/ WriteOut(d) \/ Unclaim(d)
                 \/ Crash(d)
           \/ \E d \in Daemons, c \in Callers : Claim(d, c)
           \/ UNCHANGED vars
BY DEF Next, CallerStep, DaemonStep

LEMMA CallInit == Init => CallInv
BY NobodyAssumption, TimesAssumption
   DEF Init, CallInv, TypeOK, NoAnswerMissed, ServerNamed, RequestUntouched, OwnUntouched,
       ServedOnce, ResultsRan, Working, Bodies, Waits

\* A daemon that has something in hand serves one caller, and serves it alone.
LEMMA Serving ==
    ASSUME CallInv, NEW d \in Daemons, daemon[d] \notin {"idle", "dead"}
    PROVE  /\ serves[d] \in Callers
           /\ claim[serves[d]] = d
           /\ serves[d] \notin request
           /\ \A e \in Daemons : serves[e] = serves[d] => e = d
BY NobodyAssumption DEF CallInv, TypeOK, ServerNamed

LEMMA CallStep ==
    ASSUME CallInv, [Next]_vars
    PROVE  CallInv'
<1> USE NobodyAssumption, TimesAssumption
    DEF CallInv, TypeOK, NoAnswerMissed, ServerNamed, RequestUntouched, OwnUntouched,
        ServedOnce, ResultsRan, Working, Bodies, Waits, callerVars, daemonVars, Goes, Does
<1>1. ASSUME NEW c \in Callers, Send(c) \/ DoWithout(c)
      PROVE  CallInv'
  BY <1>1 DEF Send, DoWithout
<1>2. ASSUME NEW c \in Callers, TakeAnswer(c)
      PROVE  CallInv'
  BY <1>2 DEF TakeAnswer, Take, Answer
<1>3. ASSUME NEW c \in Callers, SeeClaimed(c) \/ Overdue(c) \/ Tick(c)
      PROVE  CallInv'
  BY <1>3 DEF SeeClaimed, Overdue, Tick
<1>4. ASSUME NEW c \in Callers, Reclaim(c)
      PROVE  CallInv'
  BY <1>4 DEF Reclaim
<1>5. ASSUME NEW c \in Callers, ReclaimFails(c) \/ GiveUp(c) \/ Die(c)
      PROVE  CallInv'
  BY <1>5 DEF ReclaimFails, GiveUp, Die
<1>6. ASSUME NEW c \in Callers, OwnerDead(c)
      PROVE  CallInv'
  BY <1>6 DEF OwnerDead, Take, Answer
<1>7. ASSUME NEW c \in Callers, RunLocally(c)
      PROVE  CallInv'
  BY <1>7 DEF RunLocally
<1>8. ASSUME NEW d \in Daemons, Decline(d) \/ Return(d)
      PROVE  CallInv'
  BY <1>8, Serving DEF Decline, Return
<1>9. ASSUME NEW d \in Daemons, Run(d)
      PROVE  CallInv'
  BY <1>9, Serving DEF Run
<1>10. ASSUME NEW d \in Daemons, WriteOut(d)
       PROVE  CallInv'
  BY <1>10, Serving DEF WriteOut
<1>11. ASSUME NEW d \in Daemons, Unclaim(d)
       PROVE  CallInv'
  BY <1>11, Serving DEF Unclaim
<1>12. ASSUME NEW d \in Daemons, Crash(d)
       PROVE  CallInv'
  BY <1>12 DEF Crash
<1>13. ASSUME NEW d \in Daemons, NEW c \in Callers, Claim(d, c)
       PROVE  CallInv'
  BY <1>13 DEF Claim
<1>14. CASE UNCHANGED vars
  BY <1>14 DEF vars
<1> QED BY StepCases, <1>1, <1>2, <1>3, <1>4, <1>5, <1>6, <1>7, <1>8, <1>9, <1>10, <1>11,
           <1>12, <1>13, <1>14

LEMMA CallInvariant == Spec => []CallInv
<1>1. CallInv /\ [Next]_vars => CallInv'
  BY CallStep
<1> QED BY CallInit, <1>1, PTL DEF Spec

\* Every file and every phase keeps its type, and a request and a claim of one
\* caller are never there together.
THEOREM CallTypeCorrect == Spec => []TypeOK
<1>1. CallInv => TypeOK
  BY DEF CallInv
<1> QED BY <1>1, CallInvariant, PTL

\* No answer is missed, and none comes late, but for a caller that gave up on a
\* live claim or died.
THEOREM AnswersAreRead == Spec => []NoAnswerMissed
<1>1. CallInv => NoAnswerMissed
  BY DEF CallInv
<1> QED BY <1>1, CallInvariant, PTL

----
(* Refinement.                                                             *)

Outcomes == [c \in Callers |-> Outcome(c)]

\* A step of one caller changes what that caller knows.
LEMMA OutcomeOfOne ==
    ASSUME CallInv, NEW c \in Callers, NEW s, Goes(c, s)
    PROVE  /\ caller'[c] = s
           /\ Outcomes' = [Outcomes EXCEPT ![c] = Outcome(c)']
<1>1. /\ caller'[c] = s
      /\ \A e \in Callers \ {c} : caller'[e] = caller[e]
  BY DEF CallInv, TypeOK, Goes
<1>2. \A e \in Callers \ {c} : Outcome(e)' = Outcome(e)
  BY <1>1 DEF Outcome, Waits
<1> QED BY <1>1, <1>2 DEF Outcomes

LEMMA OutcomesKept ==
    ASSUME caller' = caller
    PROVE  Outcomes' = Outcomes
BY DEF Outcomes, Outcome, Waits

LEMMA PromiseStep ==
    ASSUME CallInv, [Next]_vars
    PROVE  [call!Next]_(call!vars)
<1> USE NobodyAssumption DEF callerVars, daemonVars
<1>1. ASSUME NEW c \in Callers, Send(c) \/ SeeClaimed(c) \/ Overdue(c) \/ Die(c)
      PROVE  UNCHANGED call!vars
  <2>1. \E s \in {"waiting", "claimed", "reclaiming", "died"} : Goes(c, s)
    BY <1>1 DEF Send, SeeClaimed, Overdue, Die
  <2>2. Outcome(c) = "pending" /\ Outcome(c)' = "pending"
    BY <1>1, <2>1, OutcomeOfOne DEF Send, SeeClaimed, Overdue, Die, Outcome, Waits
  <2>3. Outcomes' = Outcomes
    BY <2>1, <2>2, OutcomeOfOne DEF Outcomes
  <2> QED BY <1>1, <2>3 DEF Send, SeeClaimed, Overdue, Die, Outcomes, call!vars
<1>2. ASSUME NEW c \in Callers,
             \/ DoWithout(c) \/ TakeAnswer(c) \/ Reclaim(c) \/ OwnerDead(c) \/ GiveUp(c)
             \/ (ReclaimFails(c) /\ Goes(c, "reclaim_failed"))
      PROVE  call!Learn(c)
  <2>1. PICK s \in {"local", "answered", "failed", "owner_dead", "in_flight",
                     "reclaim_failed"} : Goes(c, s)
    BY <1>2 DEF DoWithout, TakeAnswer, Take, Answer, Reclaim, OwnerDead, GiveUp
  <2>2. Outcome(c) = "pending" /\ runs' = runs
    BY <1>2 DEF DoWithout, TakeAnswer, Reclaim, OwnerDead, GiveUp, ReclaimFails, Outcome,
                Waits
  <2>3. /\ s = "answered" => runs[c] = 1
        /\ s = "local" => runs[c] = 0
    <3>1. s = "answered" => out[c] = "result"
      BY <1>2, <2>1 DEF DoWithout, TakeAnswer, Take, Answer, Reclaim, OwnerDead, GiveUp,
                        ReclaimFails, Goes, CallInv, TypeOK
    <3>2. s = "local" => caller[c] = "new" \/ c \in request
      BY <1>2, <2>1 DEF DoWithout, TakeAnswer, Take, Answer, Reclaim, OwnerDead, GiveUp,
                        ReclaimFails, Goes, CallInv, TypeOK
    <3> QED BY <3>1, <3>2 DEF CallInv, ResultsRan, OwnUntouched, RequestUntouched
  <2>4. Outcome(c)' = IF s = "local" THEN "alone"
                      ELSE IF s \in {"answered", "failed"} THEN s ELSE "unverified"
    BY <2>1, OutcomeOfOne DEF Outcome, Waits
  <2>5. Outcomes' = [Outcomes EXCEPT ![c] = Outcome(c)'] /\ Outcomes[c] = "pending"
    BY <2>1, <2>2, OutcomeOfOne DEF Outcomes
  <2> QED BY <2>2, <2>3, <2>4, <2>5 DEF Outcomes, call!Learn
<1>3. ASSUME NEW c \in Callers, ReclaimFails(c), ~Goes(c, "reclaim_failed")
      PROVE  UNCHANGED call!vars
  <2>1. /\ Goes(c, "waiting") /\ caller[c] \in {"waiting", "reclaiming"}
        /\ runs' = runs
    BY <1>3 DEF ReclaimFails
  <2>2. Outcome(c) = "pending" /\ Outcome(c)' = "pending"
    BY <2>1, OutcomeOfOne DEF Outcome, Waits
  <2> QED BY <2>1, <2>2, OutcomeOfOne DEF Outcomes, call!vars
<1>4. ASSUME NEW c \in Callers, RunLocally(c)
      PROVE  call!ExecuteAlone(c) \/ UNCHANGED call!vars
  <2>1. /\ Goes(c, "ran") /\ caller[c] = "local"
        /\ runs' \in {runs, [runs EXCEPT ![c] = @ + 1]}
    BY <1>4 DEF RunLocally
  <2>2. Outcome(c) = "alone" /\ Outcome(c)' = "alone" /\ runs[c] = 0
    BY <2>1, OutcomeOfOne DEF Outcome, Waits, CallInv, OwnUntouched
  <2>3. Outcomes' = Outcomes /\ Outcomes[c] = "alone"
    BY <2>1, <2>2, OutcomeOfOne DEF Outcomes
  <2> QED BY <2>1, <2>2, <2>3 DEF Outcomes, call!ExecuteAlone, call!Start, call!vars
<1>5. ASSUME NEW d \in Daemons, Run(d)
      PROVE  serves[d] \in Callers /\ call!Execute(serves[d])
  <2> DEFINE c == serves[d]
  <2>1. /\ daemon[d] = "claimed" /\ caller' = caller
        /\ runs' = [runs EXCEPT ![c] = @ + 1]
    BY <1>5 DEF Run
  <2>2. c \in Callers /\ runs[c] = 0
    BY <2>1, Serving DEF CallInv, ServedOnce
  <2>3. Waits(c) \/ caller[c] \in {"reclaim_failed", "in_flight", "died"}
    BY <2>1, <2>2 DEF CallInv, NoAnswerMissed
  <2>4. Outcomes[c] \in {"pending", "unverified"}
    BY <2>2, <2>3 DEF Outcomes, Outcome, Waits
  <2> QED BY <2>1, <2>2, <2>4, OutcomesKept DEF Outcomes, call!Execute, call!Start
<1>6. ASSUME NEW d \in Daemons,
             \/ Decline(d) \/ Return(d) \/ WriteOut(d) \/ Unclaim(d) \/ Crash(d)
      PROVE  UNCHANGED call!vars
  BY <1>6, OutcomesKept DEF Decline, Return, WriteOut, Unclaim, Crash, Outcomes, call!vars
<1>7. ASSUME NEW d \in Daemons, NEW c \in Callers, Claim(d, c)
      PROVE  UNCHANGED call!vars
  BY <1>7, OutcomesKept DEF Claim, Outcomes, call!vars
<1>8. ASSUME NEW c \in Callers, Tick(c)
      PROVE  UNCHANGED call!vars
  BY <1>8, OutcomesKept DEF Tick, Outcomes, call!vars
<1>9. CASE UNCHANGED vars
  BY <1>9, OutcomesKept DEF vars, Outcomes, call!vars
<1> QED
  BY StepCases, <1>1, <1>2, <1>3, <1>4, <1>5, <1>6, <1>7, <1>8, <1>9 DEF call!Next

\* A verb runs once at most, in a daemon or in its caller: the protocol of the
\* files implements RemoteCall.
THEOREM FilesImplementCall == Spec => Promise
<1>1. Init => call!Init
  BY DEF Init, call!Init, Outcome, Waits
<1>2. CallInv /\ [Next]_vars => [call!Next]_(call!vars)
  BY PromiseStep
<1> QED BY <1>1, <1>2, CallInvariant, PTL DEF Spec, Promise, call!Spec
=============================================================================
