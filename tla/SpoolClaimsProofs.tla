------------------------- MODULE SpoolClaimsProofs -------------------------
(* What the claims protocol guarantees for every set of requests, any       *)
(* number of daemons and of claims: a request is never lost, its verb is    *)
(* not started twice unless a handoff gave the request back, and an answer  *)
(* stands until it is reaped.  The inbox watch only decides when a daemon   *)
(* claims, so it inherits all of that; what it leaves unnoticed, it missed. *)
EXTENDS SpoolInbox, TLAPS

\* One disjunct per action, as Next has them.
LEMMA StepCases ==
    ASSUME [Next]_vars
    PROVE  \/ \E r \in Requests : Submit(r) \/ Age(r) \/ Stale(r) \/ Reap(r)
           \/ \E t \in Threads :
                 \/ Register(t) \/ Beat(t) \/ Run(t) \/ Refuse(t) \/ WriteOut(t)
                 \/ AnswerAtOnce(t) \/ Release(t) \/ End(t) \/ Renew(t) \/ LastBeat(t) \/ Fail(t)
           \/ \E d \in Ids : Exit(d) \/ Start(d) \/ Swept(d) \/ Crash(d) \/ HandOff(d)
                             \/ Attach(d)
           \/ \E d \in Ids, r \in Requests :
                 \/ Claim(d, r) \/ Requeue(d, r) \/ Convert(d, r)
                 \/ SweepInherited(d, r) \/ SweepClaim(d, r) \/ Orphan(d, r)
                 \/ SetAside(d, r) \/ Reject(d, r)
           \/ UNCHANGED vars
BY DEF Next, ThreadStep, DaemonStep, SweepStep

----
(* Nothing is lost.                                                        *)

Shapes ==
    /\ file \in [Requests -> {"unsent", "queued", "claimed", "none", "stray", "aside"}]
    /\ reply \in [Requests -> {"none", "answer", "orphaned", "reaped"}]
    /\ at \in [Threads -> {"none", "claimed", "queued", "beating", "running",
                           "refused", "answered", "released", "over"}]
    /\ judged \subseteq Requests

\* A thread removes the claim only after it has written the reply.
AnsweredFirst ==
    \A t \in Threads : at[t] \in {"answered", "released"} => reply[t[1]] # "none"

NothingLostInv == Shapes /\ AnsweredFirst /\ NothingLost

LEMMA ThreadsOfRequests ==
    \A t \in Threads : t[1] \in Requests
BY DEF Threads

LEMMA NothingLostInit == Init => NothingLostInv
BY DEF Init, NothingLostInv, Shapes, AnsweredFirst, NothingLost

LEMMA NothingLostStep ==
    ASSUME NothingLostInv, [Next]_vars
    PROVE  NothingLostInv'
<1> USE ThreadsOfRequests DEF NothingLostInv, Shapes, AnsweredFirst, NothingLost,
        claimVars, threadVars, sweepVars, File, Reply, Goes, Mark
<1>1. ASSUME NEW r \in Requests, Submit(r) \/ Age(r) \/ Stale(r) \/ Reap(r)
      PROVE  NothingLostInv'
  BY <1>1 DEF Submit, Age, Stale, Reap
<1>2. ASSUME NEW t \in Threads,
             \/ Register(t) \/ Beat(t) \/ Run(t) \/ Refuse(t)
             \/ Renew(t) \/ LastBeat(t) \/ Fail(t)
      PROVE  NothingLostInv'
  BY <1>2 DEF Register, Beat, Run, Refuse, Renew, LastBeat, Fail, StopBeating
<1>3. ASSUME NEW t \in Threads, WriteOut(t) \/ AnswerAtOnce(t)
      PROVE  NothingLostInv'
  BY <1>3 DEF WriteOut, AnswerAtOnce
<1>4. ASSUME NEW t \in Threads, Release(t)
      PROVE  NothingLostInv'
  BY <1>4 DEF Release
<1>5. ASSUME NEW t \in Threads, End(t)
      PROVE  NothingLostInv'
  BY <1>5 DEF End, StopBeating
<1>6. ASSUME NEW d \in Ids, Exit(d) \/ Crash(d)
      PROVE  NothingLostInv'
  BY <1>6 DEF Exit, Crash, Kill
<1>7. ASSUME NEW d \in Ids, Start(d) \/ Swept(d) \/ HandOff(d) \/ Attach(d)
      PROVE  NothingLostInv'
  BY <1>7 DEF Start, Swept, HandOff, Inherit, Attach, List
<1>8. ASSUME NEW d \in Ids, NEW r \in Requests, Claim(d, r)
      PROVE  NothingLostInv'
  BY <1>8 DEF Claim
<1>9. ASSUME NEW d \in Ids, NEW r \in Requests,
             \/ Requeue(d, r) \/ Convert(d, r) \/ SweepInherited(d, r) \/ SweepClaim(d, r)
      PROVE  NothingLostInv'
  BY <1>9 DEF Requeue, Convert, SweepInherited, SweepClaim, Sweeps, GiveBack
<1>10. ASSUME NEW d \in Ids, NEW r \in Requests, Orphan(d, r) \/ SetAside(d, r) \/ Reject(d, r)
       PROVE  NothingLostInv'
  BY <1>10 DEF Orphan, SetAside, Reject
<1>11. CASE UNCHANGED vars
  BY <1>11 DEF vars
<1> QED BY StepCases, <1>1, <1>2, <1>3, <1>4, <1>5, <1>6, <1>7, <1>8, <1>9, <1>10, <1>11

\* No request is lost, whatever dies when: a request or claim file disappears
\* only once there is a reply.
THEOREM RequestsSurvive == Spec => []NothingLost
<1>1. NothingLostInv /\ [Next]_vars => NothingLostInv'
  BY NothingLostStep
<1>2. NothingLostInv => NothingLost
  BY DEF NothingLostInv
<1> QED BY NothingLostInit, <1>1, <1>2, PTL DEF Spec

----
(* Types.                                                                  *)

LEMMA TypeInit == Init => TypeOK
BY BoundsAssumption DEF Init, TypeOK, Ids

LEMMA TypeStep ==
    ASSUME TypeOK, [Next]_vars
    PROVE  TypeOK'
<1> USE ThreadsOfRequests DEF TypeOK, claimVars, threadVars, sweepVars,
        File, Reply, Goes, Mark, Forget
<1>1. ASSUME NEW r \in Requests, Submit(r) \/ Age(r) \/ Stale(r) \/ Reap(r)
      PROVE  TypeOK'
  BY <1>1 DEF Submit, Age, Stale, Reap
<1>2. ASSUME NEW t \in Threads, Register(t)
      PROVE  TypeOK'
  BY <1>2 DEF Register, Threads
<1>3. ASSUME NEW t \in Threads, 
             \/ Beat(t) \/ Run(t) \/ Refuse(t) \/ Renew(t) \/ LastBeat(t) \/ Fail(t)
      PROVE  TypeOK'
  BY <1>3 DEF Beat, Run, Refuse, Renew, LastBeat, Fail, StopBeating
<1>4. ASSUME NEW t \in Threads, WriteOut(t) \/ AnswerAtOnce(t) \/ Release(t) \/ End(t)
      PROVE  TypeOK'
  BY <1>4 DEF WriteOut, AnswerAtOnce, Release, End, StopBeating
<1>5. ASSUME NEW d \in Ids, Exit(d) \/ Crash(d)
      PROVE  TypeOK'
  BY <1>5 DEF Exit, Crash, Kill
<1>6. ASSUME NEW d \in Ids, Start(d) \/ Attach(d)
      PROVE  TypeOK'
  BY <1>6 DEF Start, Attach, List
<1>7. ASSUME NEW d \in Ids, Swept(d) \/ HandOff(d)
      PROVE  TypeOK'
  <2>1. CASE Swept(d)
    BY <2>1 DEF Swept
  <2>2. CASE HandOff(d)
    BY <2>2 DEF HandOff, Inherit
  <2> QED BY <1>7, <2>1, <2>2
<1>8. ASSUME NEW d \in Ids, NEW r \in Requests, Claim(d, r)
      PROVE  TypeOK'
  <2>1. /\ claims[r] \in 0 .. MaxClaims
        /\ claims[r] + 1 \in 0 .. MaxClaims
    BY <1>8, BoundsAssumption DEF Claim
  <2> QED BY <1>8, <2>1 DEF Claim
<1>9. ASSUME NEW d \in Ids, NEW r \in Requests,
             Requeue(d, r) \/ Convert(d, r) \/ SweepInherited(d, r)
      PROVE  TypeOK'
  BY <1>9 DEF Requeue, Convert, SweepInherited, Sweeps, GiveBack
<1>10. ASSUME NEW d \in Ids, NEW r \in Requests,
             SweepClaim(d, r) \/ Orphan(d, r) \/ SetAside(d, r) \/ Reject(d, r)
       PROVE  TypeOK'
  BY <1>10 DEF SweepClaim, Orphan, Sweeps, SetAside, Reject
<1>11. CASE UNCHANGED vars
  BY <1>11 DEF vars
<1> QED BY StepCases, <1>1, <1>2, <1>3, <1>4, <1>5, <1>6, <1>7, <1>8, <1>9, <1>10, <1>11

\* Every variable keeps its type; in particular a claim is condemned only while
\* a daemon sweeps.
THEOREM SpoolTypeCorrect == Spec => []TypeOK
<1>1. TypeOK /\ [Next]_vars => TypeOK'
  BY TypeStep
<1> QED BY TypeInit, <1>1, PTL DEF Spec

----
(* The entries of in_flight_map and the threads.                           *)

\* The threads of a request are numbered as they claim it.
Numbered == \A t \in Threads : t[2] > claims[t[1]] => at[t] = "none"

\* An entry is made by a live thread of its daemon, and goes before it.
RegisteredInv == TypeOK /\ Numbered /\ RegisteredIsLive

LEMMA NumberedStep ==
    ASSUME TypeOK, Numbered, [Next]_vars
    PROVE  Numbered'
<1> USE ThreadsOfRequests DEF Numbered, TypeOK, claimVars, threadVars, sweepVars, Goes
<1>1. ASSUME NEW r \in Requests, Submit(r) \/ Age(r) \/ Stale(r) \/ Reap(r)
      PROVE  Numbered'
  BY <1>1 DEF Submit, Age, Stale, Reap
<1>2. ASSUME NEW t \in Threads,
             \/ Register(t) \/ Beat(t) \/ Run(t) \/ Refuse(t)
             \/ Renew(t) \/ LastBeat(t) \/ Fail(t)
      PROVE  Numbered'
  BY <1>2 DEF Register, Beat, Run, Refuse, Renew, LastBeat, Fail, StopBeating
<1>3. ASSUME NEW t \in Threads, WriteOut(t) \/ AnswerAtOnce(t) \/ Release(t) \/ End(t)
      PROVE  Numbered'
  BY <1>3 DEF WriteOut, AnswerAtOnce, Release, End, StopBeating
<1>4. ASSUME NEW d \in Ids, Exit(d) \/ Crash(d)
      PROVE  Numbered'
  BY <1>4 DEF Exit, Crash, Kill, Live
<1>5. ASSUME NEW d \in Ids, Start(d) \/ Attach(d) \/ Swept(d) \/ HandOff(d)
      PROVE  Numbered'
  BY <1>5 DEF Start, Attach, Swept, HandOff, Inherit, List
<1>6. ASSUME NEW d \in Ids, NEW r \in Requests, Claim(d, r)
      PROVE  Numbered'
  <2>1. /\ claims[r] \in Nat
        /\ claims' = [claims EXCEPT ![r] = claims[r] + 1]
        /\ at' = [at EXCEPT ![<<r, claims[r] + 1>>] = "claimed"]
    BY <1>6 DEF Claim
  <2>2. SUFFICES ASSUME NEW u \in Threads, u[2] > claims'[u[1]]
                 PROVE  at'[u] = "none"
    BY DEF Numbered
  <2>3. u[1] \in Requests /\ u[2] \in 1 .. MaxClaims /\ claims[u[1]] \in Nat
    BY <2>2, BoundsAssumption DEF Threads
  <2>4. u[2] > claims[u[1]] /\ u # <<r, claims[r] + 1>>
    BY <2>1, <2>2, <2>3, BoundsAssumption
  <2> QED BY <2>1, <2>4
<1>7. ASSUME NEW d \in Ids, NEW r \in Requests,
             Requeue(d, r) \/ Convert(d, r) \/ SweepInherited(d, r)
      PROVE  Numbered'
  BY <1>7 DEF Requeue, Convert, SweepInherited, Sweeps, GiveBack
<1>8. ASSUME NEW d \in Ids, NEW r \in Requests,
             SweepClaim(d, r) \/ Orphan(d, r) \/ SetAside(d, r) \/ Reject(d, r)
      PROVE  Numbered'
  BY <1>8 DEF SweepClaim, Orphan, Sweeps, SetAside, Reject
<1>9. CASE UNCHANGED vars
  BY <1>9 DEF vars
<1> QED BY StepCases, <1>1, <1>2, <1>3, <1>4, <1>5, <1>6, <1>7, <1>8, <1>9

LEMMA RegisteredStep ==
    ASSUME RegisteredInv, [Next]_vars
    PROVE  RegisteredIsLive'
<1> USE ThreadsOfRequests DEF RegisteredInv, RegisteredIsLive, TypeOK, claimVars, threadVars,
        sweepVars, Goes, Forget, Live, Of
<1>1. ASSUME NEW r \in Requests, Submit(r) \/ Age(r) \/ Stale(r) \/ Reap(r)
      PROVE  RegisteredIsLive'
  BY <1>1 DEF Submit, Age, Stale, Reap
<1>2. ASSUME NEW t \in Threads, Register(t)
      PROVE  RegisteredIsLive'
  BY <1>2 DEF Register
<1>3. ASSUME NEW t \in Threads, Beat(t) \/ Run(t) \/ Refuse(t) \/ Renew(t) \/ LastBeat(t)
      PROVE  RegisteredIsLive'
  BY <1>3 DEF Beat, Run, Refuse, Renew, LastBeat
<1>4. ASSUME NEW t \in Threads, WriteOut(t) \/ AnswerAtOnce(t) \/ Release(t)
      PROVE  RegisteredIsLive'
  <2>1. CASE WriteOut(t)
    BY <2>1 DEF WriteOut
  <2>2. CASE AnswerAtOnce(t)
    BY <2>2 DEF AnswerAtOnce
  <2>3. CASE Release(t)
    BY <2>3 DEF Release
  <2> QED BY <1>4, <2>1, <2>2, <2>3
<1>5. ASSUME NEW t \in Threads, End(t) \/ Fail(t)
      PROVE  RegisteredIsLive'
  BY <1>5 DEF End, Fail, StopBeating
<1>6. ASSUME NEW d \in Ids, Exit(d) \/ Crash(d)
      PROVE  RegisteredIsLive'
  BY <1>6 DEF Exit, Crash, Kill
<1>7. ASSUME NEW d \in Ids, Start(d) \/ Attach(d) \/ Swept(d) \/ HandOff(d)
      PROVE  RegisteredIsLive'
  BY <1>7 DEF Start, Attach, Swept, HandOff, Inherit, List
<1>8. ASSUME NEW d \in Ids, NEW r \in Requests, Claim(d, r)
      PROVE  RegisteredIsLive'
  <2> DEFINE u == <<r, claims[r] + 1>>
  <2>1. u \in Threads /\ at[u] = "none"
    <3>1. claims[r] \in Nat /\ claims[r] < MaxClaims
      BY <1>8, BoundsAssumption DEF Claim
    <3>2. u \in Threads
      BY <3>1, BoundsAssumption DEF Threads
    <3> QED BY <3>1, <3>2 DEF Numbered
  <2>2. /\ at' = [at EXCEPT ![u] = "claimed"]
        /\ by' = [by EXCEPT ![u] = d]
        /\ in_flight' = in_flight
    BY <1>8 DEF Claim
  <2> HIDE DEF u
  <2> QED BY <2>1, <2>2
<1>9. ASSUME NEW d \in Ids, NEW r \in Requests,
             Requeue(d, r) \/ Convert(d, r) \/ SweepInherited(d, r)
      PROVE  RegisteredIsLive'
  BY <1>9 DEF Requeue, Convert, SweepInherited, Sweeps, GiveBack
<1>10. ASSUME NEW d \in Ids, NEW r \in Requests,
             SweepClaim(d, r) \/ Orphan(d, r) \/ SetAside(d, r) \/ Reject(d, r)
       PROVE  RegisteredIsLive'
  BY <1>10 DEF SweepClaim, Orphan, Sweeps, SetAside, Reject
<1>11. CASE UNCHANGED vars
  BY <1>11 DEF vars
<1> QED BY StepCases, <1>1, <1>2, <1>3, <1>4, <1>5, <1>6, <1>7, <1>8, <1>9, <1>10, <1>11

\* No entry of in_flight_map outlives its thread, whichever way the thread ends.
THEOREM RegistryIsExact == Spec => []RegisteredIsLive
<1>1. Init => RegisteredInv
  BY TypeInit DEF Init, RegisteredInv, Numbered, RegisteredIsLive
<1>2. RegisteredInv /\ [Next]_vars => RegisteredInv'
  BY TypeStep, NumberedStep, RegisteredStep DEF RegisteredInv
<1>3. RegisteredInv => RegisteredIsLive
  BY DEF RegisteredInv
<1> QED BY <1>1, <1>2, <1>3, PTL DEF Spec

----
(* A verb is started once.                                                 *)

\* As long as no handoff gives a request back, it is claimed once, and the
\* thread that claimed it starts the verb on its way from one state to another.
Once(r) ==
    /\ file[r] \in {"unsent", "queued"} => claims[r] = 0
    /\ claims[r] <= 1
    /\ runs[r] <= 1
    /\ \A t \in Threads :
          t[1] = r /\ at[t] \in {"claimed", "queued", "beating"} => runs[r] = 0
    /\ claims[r] = 0 => runs[r] = 0

RunsOnceInv ==
    /\ TypeOK
    /\ Numbered
    /\ \A r \in Requests \ handed : Once(r)

\* Two threads of a request that was not handed back are the same thread.
LEMMA OneThread ==
    ASSUME RunsOnceInv, NEW r \in Requests \ handed,
           NEW t \in Threads, NEW u \in Threads, t[1] = r, u[1] = r,
           at[t] # "none", at[u] # "none"
    PROVE  t = u
<1>1. /\ t[2] \in 1 .. MaxClaims /\ u[2] \in 1 .. MaxClaims
      /\ claims[r] \in Nat /\ claims[r] <= 1
      /\ t = <<t[1], t[2]>> /\ u = <<u[1], u[2]>>
  BY BoundsAssumption DEF RunsOnceInv, Once, TypeOK, Threads
<1>2. t[2] <= claims[r] /\ u[2] <= claims[r]
  BY <1>1, BoundsAssumption DEF RunsOnceInv, Numbered
<1> QED BY <1>1, <1>2, BoundsAssumption

LEMMA RunsOnceStep ==
    ASSUME RunsOnceInv, [Next]_vars
    PROVE  \A r \in Requests \ handed' : Once(r)'
<1> SUFFICES ASSUME NEW q \in Requests, q \notin handed'
             PROVE  Once(q)'
  OBVIOUS
<1> USE ThreadsOfRequests DEF RunsOnceInv, Once, TypeOK, claimVars, threadVars,
        sweepVars, Goes, File
<1>1. ASSUME NEW r \in Requests, Submit(r) \/ Age(r) \/ Stale(r) \/ Reap(r)
      PROVE  Once(q)'
  BY <1>1 DEF Submit, Age, Stale, Reap
<1>2. ASSUME NEW t \in Threads, Register(t) \/ Beat(t) \/ Renew(t) \/ LastBeat(t)
      PROVE  Once(q)'
  BY <1>2 DEF Register, Beat, Renew, LastBeat
<1>3. ASSUME NEW t \in Threads, Run(t) \/ Refuse(t)
      PROVE  Once(q)'
  <2>1. q \notin handed
    BY <1>3 DEF Run, Refuse
  <2>2. CASE t[1] # q
    BY <1>3, <2>1, <2>2 DEF Run, Refuse
  <2>3. CASE t[1] = q
    <3>1. \A u \in Threads : u[1] = q /\ u # t => at[u] = "none"
      BY <1>3, <2>1, <2>3, OneThread DEF Run, Refuse
    <3>2. runs[q] = 0 /\ claims[q] # 0 /\ claims[q] \in Nat
      <4>1. t[2] \in 1 .. MaxClaims /\ ~(t[2] > claims[q])
        BY <1>3, <2>3 DEF Run, Refuse, Numbered, Threads
      <4>2. claims[q] \in Nat
        BY BoundsAssumption
      <4>3. runs[q] = 0
        BY <1>3, <2>1, <2>3 DEF Run, Refuse
      <4> QED BY <4>1, <4>2, <4>3, BoundsAssumption
    <3>3. /\ claims' = claims /\ file' = file
          /\ runs'[q] \in {0, 1}
          /\ at' \in {[at EXCEPT ![t] = "running"], [at EXCEPT ![t] = "refused"]}
      BY <1>3, <2>3, <3>2 DEF Run, Refuse
    <3>4. \A u \in Threads :
             u[1] = q => at'[u] \notin {"claimed", "queued", "beating"}
      BY <3>1, <3>3
    <3> QED BY <2>1, <3>2, <3>3, <3>4
  <2> QED BY <2>2, <2>3
<1>4. ASSUME NEW t \in Threads, WriteOut(t) \/ AnswerAtOnce(t) \/ Release(t) \/ End(t) \/ Fail(t)
      PROVE  Once(q)'
  BY <1>4 DEF WriteOut, AnswerAtOnce, Release, End, Fail, StopBeating
<1>5. ASSUME NEW d \in Ids, Exit(d) \/ Crash(d)
      PROVE  Once(q)'
  BY <1>5 DEF Exit, Crash, Kill, Live
<1>6. ASSUME NEW d \in Ids, Start(d) \/ Attach(d) \/ Swept(d) \/ HandOff(d)
      PROVE  Once(q)'
  BY <1>6 DEF Start, Attach, Swept, HandOff, Inherit, List
<1>7. ASSUME NEW d \in Ids, NEW r \in Requests, Claim(d, r)
      PROVE  Once(q)'
  <2>1. q \notin handed
    BY <1>7 DEF Claim
  <2>2. CASE q # r
    <3>1. /\ claims'[q] = claims[q] /\ file'[q] = file[q] /\ runs' = runs
          /\ \A u \in Threads : u[1] = q => at'[u] = at[u]
      BY <1>7, <2>2 DEF Claim
    <3> QED BY <2>1, <3>1
  <2>3. CASE q = r
    <3>1. claims[q] = 0 /\ runs[q] = 0 /\ file[q] = "queued"
      BY <1>7, <2>1, <2>3 DEF Claim
    <3>2. claims'[q] = 1 /\ file'[q] = "claimed" /\ runs' = runs
      BY <1>7, <2>3, <3>1 DEF Claim
    <3> QED BY <3>1, <3>2
  <2> QED BY <2>2, <2>3
<1>8. ASSUME NEW d \in Ids, NEW r \in Requests,
             Requeue(d, r) \/ Convert(d, r) \/ SweepInherited(d, r)
      PROVE  Once(q)'
  BY <1>8 DEF Requeue, Convert, SweepInherited, Sweeps, GiveBack
<1>9. ASSUME NEW d \in Ids, NEW r \in Requests,
             SweepClaim(d, r) \/ Orphan(d, r) \/ SetAside(d, r) \/ Reject(d, r)
      PROVE  Once(q)'
  BY <1>9 DEF SweepClaim, Orphan, Sweeps, SetAside, Reject
<1>10. CASE UNCHANGED vars
  BY <1>10 DEF vars
<1> QED BY StepCases, <1>1, <1>2, <1>3, <1>4, <1>5, <1>6, <1>7, <1>8, <1>9, <1>10

\* A crash, a failure, a conversion or a sweep never starts a verb again: only
\* a handoff does.
THEOREM VerbsRunOnce == Spec => []RunsOnce
<1>1. Init => RunsOnceInv
  BY TypeInit DEF Init, RunsOnceInv, Numbered, Once
<1>2. RunsOnceInv /\ [Next]_vars => RunsOnceInv'
  BY TypeStep, NumberedStep, RunsOnceStep DEF RunsOnceInv
<1>3. RunsOnceInv => RunsOnce
  BY DEF RunsOnceInv, RunsOnce, Once
<1> QED BY <1>1, <1>2, <1>3, PTL DEF Spec

\* Together: no request is lost, done twice, or shielded by an entry nobody owns.
THEOREM RequestsAreSound == Spec => []RequestSound
<1>1. NothingLost /\ RegisteredIsLive /\ RunsOnce => RequestSound
  BY DEF RequestSound
<1> QED BY <1>1, RequestsSurvive, RegistryIsExact, VerbsRunOnce, PTL

----
(* An answer stands.                                                       *)

\* A request has a thread, or a place in a sweep, only after it was sent; until then
\* nobody answers it.
SentFirst ==
    /\ \A r \in Requests : file[r] = "unsent" => reply[r] = "none" /\ r \notin todo \cup judged
    /\ \A t \in Threads : at[t] # "none" => file[t[1]] # "unsent"

\* What was reaped has no file that a sweep would list, and is in no sweep's hands.
ReapedIsOver ==
    \A r \in Requests :
        reply[r] = "reaped" => file[r] \in {"none", "aside"} /\ r \notin todo \cup judged

AnswerInv == TypeOK /\ SentFirst /\ ReapedIsOver

LEMMA AnswerInit == Init => AnswerInv
BY TypeInit, ThreadsOfRequests DEF Init, AnswerInv, SentFirst, ReapedIsOver

LEMMA AnswerStep ==
    ASSUME AnswerInv, [Next]_vars
    PROVE  AnswerInv'
<1> USE ThreadsOfRequests DEF AnswerInv, SentFirst, ReapedIsOver, TypeOK, claimVars,
        threadVars, sweepVars, Goes, File, Reply, Mark
<1>1. SUFFICES SentFirst' /\ ReapedIsOver'
  BY TypeStep
<1>2. ASSUME NEW r \in Requests, Submit(r) \/ Age(r) \/ Stale(r)
      PROVE  SentFirst' /\ ReapedIsOver'
  BY <1>2 DEF Submit, Age, Stale
<1>3. ASSUME NEW r \in Requests, Reap(r)
      PROVE  SentFirst' /\ ReapedIsOver'
  BY <1>3 DEF Reap, LiveStems
<1>4. ASSUME NEW t \in Threads,
             \/ Register(t) \/ Beat(t) \/ Run(t) \/ Refuse(t)
             \/ Renew(t) \/ LastBeat(t) \/ Fail(t)
      PROVE  SentFirst' /\ ReapedIsOver'
  BY <1>4 DEF Register, Beat, Run, Refuse, Renew, LastBeat, Fail, StopBeating
<1>5. ASSUME NEW t \in Threads, WriteOut(t) \/ AnswerAtOnce(t) \/ Release(t) \/ End(t)
      PROVE  SentFirst' /\ ReapedIsOver'
  BY <1>5 DEF WriteOut, AnswerAtOnce, Release, End, StopBeating
<1>6. ASSUME NEW d \in Ids, Exit(d) \/ Crash(d)
      PROVE  SentFirst' /\ ReapedIsOver'
  BY <1>6 DEF Exit, Crash, Kill, Live
<1>7. ASSUME NEW d \in Ids, Start(d) \/ Attach(d) \/ Swept(d) \/ HandOff(d)
      PROVE  SentFirst' /\ ReapedIsOver'
  BY <1>7 DEF Start, Attach, Swept, HandOff, Inherit, List
<1>8. ASSUME NEW d \in Ids, NEW r \in Requests, Claim(d, r)
      PROVE  SentFirst' /\ ReapedIsOver'
  BY <1>8 DEF Claim
<1>9. ASSUME NEW d \in Ids, NEW r \in Requests,
             Requeue(d, r) \/ Convert(d, r) \/ SweepInherited(d, r)
      PROVE  SentFirst' /\ ReapedIsOver'
  BY <1>9 DEF Requeue, Convert, SweepInherited, Sweeps, GiveBack
<1>10. ASSUME NEW d \in Ids, NEW r \in Requests,
              SweepClaim(d, r) \/ Orphan(d, r) \/ SetAside(d, r) \/ Reject(d, r)
       PROVE  SentFirst' /\ ReapedIsOver'
  BY <1>10 DEF SweepClaim, Orphan, Sweeps, SetAside, Reject
<1>11. CASE UNCHANGED vars
  BY <1>11 DEF vars
<1> QED BY <1>1, StepCases, <1>2, <1>3, <1>4, <1>5, <1>6, <1>7, <1>8, <1>9, <1>10, <1>11

\* Only a sweep writes dispatch_orphaned, and it writes over no answer.
LEMMA NoAnswerOrphaned ==
    ASSUME AnswerInv, [Next]_vars, NEW q \in Requests, reply[q] \in {"answer", "reaped"}
    PROVE  reply'[q] # "orphaned"
<1> USE ThreadsOfRequests DEF AnswerInv, ReapedIsOver, TypeOK, claimVars, threadVars,
        sweepVars, Goes, File, Reply, Mark
<1>1. ASSUME NEW r \in Requests, Submit(r) \/ Age(r) \/ Stale(r) \/ Reap(r)
      PROVE  reply'[q] # "orphaned"
  BY <1>1 DEF Submit, Age, Stale, Reap
<1>2. ASSUME NEW t \in Threads,
             \/ Register(t) \/ Beat(t) \/ Run(t) \/ Refuse(t)
             \/ WriteOut(t) \/ AnswerAtOnce(t) \/ Release(t) \/ End(t)
             \/ Renew(t) \/ LastBeat(t) \/ Fail(t)
      PROVE  reply'[q] # "orphaned"
  BY <1>2 DEF Register, Beat, Run, Refuse, WriteOut, AnswerAtOnce, Release, End, Renew,
              LastBeat, Fail, StopBeating
<1>3. ASSUME NEW d \in Ids,
             \/ Exit(d) \/ Start(d) \/ Swept(d) \/ Crash(d) \/ HandOff(d) \/ Attach(d)
      PROVE  reply'[q] # "orphaned"
  BY <1>3 DEF Exit, Start, Swept, Crash, HandOff, Attach
<1>4. ASSUME NEW d \in Ids, NEW r \in Requests,
             \/ Claim(d, r) \/ Requeue(d, r) \/ Convert(d, r)
             \/ SweepInherited(d, r) \/ SweepClaim(d, r)
             \/ SetAside(d, r) \/ Reject(d, r)
      PROVE  reply'[q] # "orphaned"
  BY <1>4 DEF Claim, Requeue, Convert, SweepInherited, SweepClaim, Sweeps, SetAside, Reject
<1>5. ASSUME NEW d \in Ids, NEW r \in Requests, Orphan(d, r)
      PROVE  reply'[q] # "orphaned"
  BY <1>5 DEF Orphan
<1>6. CASE UNCHANGED vars
  BY <1>6 DEF vars
<1> QED BY StepCases, <1>1, <1>2, <1>3, <1>4, <1>5, <1>6

\* Once a request has its answer no sweep says that it was orphaned, not even after the
\* reaper has removed the file that said so.
THEOREM AnswersStand == Spec => AnswerStands
<1>1. AnswerInv /\ [Next]_vars => AnswerInv'
  BY AnswerStep
<1>2. AnswerInv /\ [Next]_vars
      => [\A r \in Requests :
             reply[r] \in {"answer", "reaped"} => reply'[r] # "orphaned"]_vars
  BY NoAnswerOrphaned
<1> QED BY AnswerInit, <1>1, <1>2, PTL DEF Spec, AnswerStands

----
(* The main loop that looks for requests.                                  *)

LEMMA InboxStepIsClaimStep ==
    ASSUME InboxNext \/ UNCHANGED allVars
    PROVE  [Next]_vars
<1>1. CASE Elsewhere
  BY <1>1 DEF Elsewhere, Boots, Next, DaemonStep
<1>2. CASE MakeDir \/ Settle \/ Expire
  BY <1>2 DEF MakeDir, Settle, Expire
<1>3. ASSUME NEW r \in Requests, Put(r)
      PROVE  [Next]_vars
  BY <1>3 DEF Put, Next
<1>4. ASSUME NEW d \in Ids,
             \/ Select(d) \/ Visit(d) \/ Look(d) \/ Rest(d) \/ Wait(d)
             \/ Probe(d) \/ Store(d) \/ Hang(d) \/ Unhang(d) \/ Notice(d)
      PROVE  [Next]_vars
  BY <1>4 DEF Select, Visit, Look, Rest, Wait, Probe, Store, Hang, Unhang, Notice
<1>5. ASSUME NEW d \in Ids, NEW r \in Requests, ClaimSettled(d, r) \/ ClaimAgain(d, r)
      PROVE  [Next]_vars
  BY <1>5 DEF ClaimSettled, ClaimAgain, Next, DaemonStep
<1>6. ASSUME NEW d \in Ids, Exit71(d) \/ AttachMarks(d) \/ Succeeded(d) \/ Leaves(d)
      PROVE  [Next]_vars
  BY <1>6 DEF Exit71, AttachMarks, Succeeded, Leaves, Next, DaemonStep
<1>7. CASE UNCHANGED allVars
  BY <1>7 DEF allVars
<1> QED BY <1>1, <1>2, <1>3, <1>4, <1>5, <1>6, <1>7 DEF InboxNext, MainStep

\* The daemon that finds its requests through the watch and the cached scans does nothing
\* to their files that the claims protocol does not allow.
THEOREM InboxImplementsClaims == InboxSpec => Spec
<1>1. InboxInit => Init
  BY DEF InboxInit
<1>2. [InboxNext]_allVars => [Next]_vars
  BY InboxStepIsClaimStep
<1> QED BY <1>1, <1>2, PTL DEF InboxSpec, Spec

\* So what holds of the protocol holds of that daemon.
THEOREM InboxIsSound == InboxSpec => []RequestSound /\ AnswerStands
BY InboxImplementsClaims, RequestsAreSound, AnswersStand

----
(* How a request is noticed.                                               *)

\* Nobody has claimed r yet.
Unclaimed(r) == file[r] = "queued" /\ claims[r] = 0

\* A verb directory is judged empty only when nothing has changed in it for a while, so
\* that the change that brings the next request is of another moment and lifts the verdict.
VerdictHolds ==
    verdict => depth = 2 /\ ~touched /\ \A r \in Requests : ~Unclaimed(r)

\* There is a claim file because of a claim, so a request that was given back is counted.
ClaimIsCounted == \A r \in Requests : file[r] = "claimed" => claims[r] # 0

NoticeInv == TypeOK /\ ClaimIsCounted /\ VerdictHolds /\ UnnoticedWasMissed

\* A step of the protocol in which nobody sends a request.
OtherStep ==
    \/ \E r \in Requests : Age(r) \/ Stale(r) \/ Reap(r)
    \/ \E t \in Threads :
          \/ Register(t) \/ Beat(t) \/ Run(t) \/ Refuse(t) \/ WriteOut(t)
          \/ AnswerAtOnce(t) \/ Release(t) \/ End(t) \/ Renew(t) \/ LastBeat(t) \/ Fail(t)
    \/ \E d \in Ids : Exit(d) \/ Start(d) \/ Swept(d) \/ Crash(d) \/ HandOff(d)
                      \/ Attach(d)
    \/ \E d \in Ids, r \in Requests :
          \/ Claim(d, r) \/ Requeue(d, r) \/ Convert(d, r)
          \/ SweepInherited(d, r) \/ SweepClaim(d, r) \/ Orphan(d, r)
          \/ SetAside(d, r) \/ Reject(d, r)
    \/ UNCHANGED vars

LEMMA OtherStepBringsNothing ==
    ASSUME TypeOK, ClaimIsCounted, OtherStep
    PROVE  ClaimIsCounted' /\ \A q \in Requests : Unclaimed(q)' => Unclaimed(q)
<1> SUFFICES ASSUME NEW q \in Requests
             PROVE  /\ (file[q] = "claimed" => claims[q] # 0)'
                    /\ Unclaimed(q)' => Unclaimed(q)
  BY DEF ClaimIsCounted
<1> USE ThreadsOfRequests DEF ClaimIsCounted, Unclaimed, TypeOK, claimVars,
        threadVars, sweepVars, File
<1>1. ASSUME NEW r \in Requests, Age(r) \/ Stale(r) \/ Reap(r)
      PROVE  /\ (file[q] = "claimed" => claims[q] # 0)'
             /\ Unclaimed(q)' => Unclaimed(q)
  BY <1>1 DEF Age, Stale, Reap
<1>2. ASSUME NEW t \in Threads,
             \/ Register(t) \/ Beat(t) \/ Run(t) \/ Refuse(t)
             \/ WriteOut(t) \/ AnswerAtOnce(t) \/ Release(t) \/ End(t)
             \/ Renew(t) \/ LastBeat(t) \/ Fail(t)
      PROVE  /\ (file[q] = "claimed" => claims[q] # 0)'
             /\ Unclaimed(q)' => Unclaimed(q)
  BY <1>2 DEF Register, Beat, Run, Refuse, WriteOut, AnswerAtOnce, Release, End, Renew,
              LastBeat, Fail, StopBeating
<1>3. ASSUME NEW d \in Ids,
             \/ Exit(d) \/ Start(d) \/ Swept(d) \/ Crash(d) \/ HandOff(d) \/ Attach(d)
      PROVE  /\ (file[q] = "claimed" => claims[q] # 0)'
             /\ Unclaimed(q)' => Unclaimed(q)
  BY <1>3 DEF Exit, Start, Swept, Crash, Kill, HandOff, Attach
<1>4. ASSUME NEW d \in Ids, NEW r \in Requests, Claim(d, r)
      PROVE  /\ (file[q] = "claimed" => claims[q] # 0)'
             /\ Unclaimed(q)' => Unclaimed(q)
  <2>1. claims[r] \in Nat /\ claims[r] + 1 # 0
    BY BoundsAssumption
  <2> QED BY <1>4, <2>1 DEF Claim
<1>5. ASSUME NEW d \in Ids, NEW r \in Requests,
             \/ Requeue(d, r) \/ Convert(d, r) \/ SweepInherited(d, r)
             \/ SweepClaim(d, r) \/ Orphan(d, r) \/ SetAside(d, r) \/ Reject(d, r)
      PROVE  /\ (file[q] = "claimed" => claims[q] # 0)'
             /\ Unclaimed(q)' => Unclaimed(q)
  BY <1>5 DEF Requeue, Convert, SweepInherited, SweepClaim, Sweeps, GiveBack, Orphan,
              SetAside, Reject
<1>6. CASE UNCHANGED vars
  BY <1>6 DEF vars
<1> QED BY <1>1, <1>2, <1>3, <1>4, <1>5, <1>6 DEF OtherStep

\* Of the two parts, what a step without a new request and without the scan leaves.
LEMMA ForgottenIsNoticed ==
    ASSUME NoticeInv, OtherStep, UNCHANGED inboxVars \/ Restart
    PROVE  NoticeInv'
<1>1. TypeOK'
  <2>1. [Next]_vars
    BY DEF OtherStep, Next, ThreadStep, DaemonStep, SweepStep
  <2> QED BY <2>1, TypeStep DEF NoticeInv
<1>2. ClaimIsCounted' /\ \A q \in Requests : Unclaimed(q)' => Unclaimed(q)
  BY OtherStepBringsNothing DEF NoticeInv
<1>3. CASE UNCHANGED inboxVars
  BY <1>1, <1>2, <1>3 DEF NoticeInv, VerdictHolds, UnnoticedWasMissed, Unclaimed, inboxVars
<1>4. CASE Restart
  BY <1>1, <1>2, <1>4 DEF NoticeInv, VerdictHolds, UnnoticedWasMissed, Restart
<1> QED BY <1>3, <1>4

\* A scan that is not believed sees a request that nobody has claimed.
LEMMA UnclaimedIsFound ==
    ASSUME NoticeInv, NEW r \in Requests, Unclaimed(r)
    PROVE  There /\ Found /\ Word(Found) = "work"
BY DEF NoticeInv, VerdictHolds, Unclaimed, There, Found, Word

LEMMA NoticeStep ==
    ASSUME NoticeInv, InboxNext \/ UNCHANGED allVars
    PROVE  NoticeInv'
<1>1. CASE Elsewhere
  <2>1. OtherStep
    BY <1>1 DEF Elsewhere, Boots, OtherStep, ThreadStep, SweepStep
  <2> QED BY <1>1, <2>1, ForgottenIsNoticed DEF Elsewhere, Keep
<1>2. ASSUME NEW d \in Ids, NEW r \in Requests, ClaimAgain(d, r)
      PROVE  NoticeInv'
  BY <1>2, ForgottenIsNoticed DEF ClaimAgain, OtherStep, Keep
<1>3. ASSUME NEW d \in Ids, Exit71(d) \/ Succeeded(d) \/ Leaves(d)
      PROVE  NoticeInv'
  BY <1>3, ForgottenIsNoticed DEF Exit71, Succeeded, Leaves, OtherStep
<1>4. ASSUME NEW r \in Requests, Put(r)
      PROVE  NoticeInv'
  <2>1. TypeOK'
    BY <1>4, TypeStep DEF Put, Next, NoticeInv
  <2>2. ClaimIsCounted'
    BY <1>4 DEF Put, Submit, File, NoticeInv, ClaimIsCounted, TypeOK, threadVars
  <2>3. \A q \in Requests : Unclaimed(q)' => q = r \/ Unclaimed(q)
    BY <1>4 DEF Put, Submit, File, NoticeInv, TypeOK, Unclaimed, threadVars
  <2>4. ~verdict'
    BY <1>4 DEF Put, Touch, NoticeInv, VerdictHolds
  <2>5. UNCHANGED <<dirty, cache>> /\ (event' \/ missed')
    BY <1>4 DEF Put, Tell
  <2> QED BY <2>1, <2>2, <2>4, <2>5 DEF NoticeInv, VerdictHolds, UnnoticedWasMissed
<1>5. ASSUME NEW d \in Ids, NEW r \in Requests, ClaimSettled(d, r)
      PROVE  NoticeInv'
  <2>1. OtherStep
    BY <1>5 DEF ClaimSettled, OtherStep
  <2>2. CASE Arriving'
    <3>1. TypeOK'
      BY <1>5, TypeStep DEF ClaimSettled, Next, DaemonStep, NoticeInv
    <3>2. ClaimIsCounted'
      BY <2>1, OtherStepBringsNothing DEF NoticeInv
    <3>3. dirty' /\ ~verdict'
      BY <1>5, <2>2 DEF ClaimSettled, Touch, NoticeInv, VerdictHolds
    <3> QED BY <3>1, <3>2, <3>3 DEF NoticeInv, VerdictHolds, UnnoticedWasMissed
  <2>3. CASE ~Arriving'
    BY <1>5, <2>1, <2>3, ForgottenIsNoticed DEF ClaimSettled
  <2> QED BY <2>2, <2>3
<1>6. ASSUME NEW d \in Ids, AttachMarks(d)
      PROVE  NoticeInv'
  <2>1. OtherStep
    BY <1>6 DEF AttachMarks, OtherStep
  <2>2. CASE Arriving'
    <3>1. TypeOK'
      BY <1>6, TypeStep DEF AttachMarks, Next, NoticeInv
    <3>2. ClaimIsCounted' /\ \A q \in Requests : Unclaimed(q)' => Unclaimed(q)
      BY <2>1, OtherStepBringsNothing DEF NoticeInv
    <3>3. /\ dirty => dirty'
          /\ UNCHANGED <<depth, event, cache, verdict, touched, missed>>
      BY <1>6, <2>2 DEF AttachMarks
    <3> QED BY <3>1, <3>2, <3>3 DEF NoticeInv, VerdictHolds, UnnoticedWasMissed, Unclaimed
  <2>3. CASE ~Arriving'
    BY <1>6, <2>1, <2>3, ForgottenIsNoticed DEF AttachMarks
  <2> QED BY <2>2, <2>3
<1>7. SUFFICES ASSUME UNCHANGED vars,
                      \/ MakeDir \/ Settle \/ Expire \/ UNCHANGED allVars
                      \/ \E d \in Ids :
                            \/ Select(d) \/ Visit(d) \/ Look(d) \/ Rest(d) \/ Wait(d)
                            \/ Probe(d) \/ Store(d) \/ Hang(d) \/ Unhang(d) \/ Notice(d)
               PROVE  NoticeInv'
  BY <1>1, <1>2, <1>3, <1>4, <1>5, <1>6 DEF InboxNext, MainStep, MakeDir, Settle, Expire,
     Select, Visit, Look, Rest, Wait, Probe, Store, Hang, Unhang, Notice, allVars
<1>8. /\ TypeOK' /\ ClaimIsCounted'
      /\ \A q \in Requests : Unclaimed(q)' <=> Unclaimed(q)
  BY <1>7, TypeStep DEF vars, claimVars, threadVars, NoticeInv, ClaimIsCounted, Unclaimed
<1>9. SUFFICES VerdictHolds' /\ UnnoticedWasMissed'
  BY <1>8 DEF NoticeInv
<1>10. /\ VerdictHolds' <=> (verdict' => /\ depth' = 2 /\ ~touched'
                                        /\ \A r \in Requests : ~Unclaimed(r))
       /\ UnnoticedWasMissed' <=> \A r \in Requests :
             Unclaimed(r) => dirty' \/ event' \/ cache' # "idle" \/ missed'
  BY <1>8 DEF VerdictHolds, UnnoticedWasMissed, Unclaimed
<1> USE <1>8, <1>10 DEF NoticeInv, VerdictHolds
<1>11. CASE MakeDir
  <2>1. depth # 2 /\ UNCHANGED verdict
    BY <1>11 DEF MakeDir
  <2>2. ~verdict'
    BY <2>1
  <2>3. event' \/ missed'
    BY <1>11 DEF MakeDir, Tell
  <2> QED BY <2>2, <2>3
<1>12. CASE Settle \/ Expire
  BY <1>12 DEF Settle, Expire, UnnoticedWasMissed, Unclaimed
<1>13. ASSUME NEW d \in Ids, Select(d) \/ Rest(d)
       PROVE  VerdictHolds' /\ UnnoticedWasMissed'
  <2>1. UNCHANGED <<depth, event, touched>> /\ Scan
    BY <1>13 DEF Select, Rest
  <2>2. CASE Known
    BY <2>1, <2>2 DEF Scan, UnnoticedWasMissed, Unclaimed
  <2>3. CASE ~Known
    BY <2>1, <2>3, UnclaimedIsFound DEF Scan, Stored, Judged, There, Unclaimed
  <2> QED BY <2>2, <2>3
<1>14. ASSUME NEW d \in Ids, Visit(d)
       PROVE  VerdictHolds' /\ UnnoticedWasMissed'
  <2>1. /\ Stored(Word(Found)) /\ Judged /\ UNCHANGED touched
        /\ depth = 2 => depth' = 2
    BY <1>14 DEF Visit
  <2>2. \A r \in Requests : Unclaimed(r) => cache' = "work"
    BY <2>1, UnclaimedIsFound DEF Stored
  <2>3. VerdictHolds'
    BY <2>1, UnclaimedIsFound DEF Judged
  <2> QED BY <2>2, <2>3
<1>15. ASSUME NEW d \in Ids, Wait(d)
       PROVE  VerdictHolds' /\ UnnoticedWasMissed'
  BY <1>15 DEF Wait, UnnoticedWasMissed, Unclaimed
<1>16. ASSUME NEW d \in Ids, Probe(d)
       PROVE  VerdictHolds' /\ UnnoticedWasMissed'
  BY <1>16 DEF Probe, Judged, There, UnnoticedWasMissed, Unclaimed
<1>17. ASSUME NEW d \in Ids, Store(d)
       PROVE  VerdictHolds' /\ UnnoticedWasMissed'
  BY <1>17, UnclaimedIsFound DEF Store, Stored, UnnoticedWasMissed, Unclaimed
<1>18. ASSUME NEW d \in Ids, Look(d) \/ Hang(d) \/ Unhang(d) \/ Notice(d)
       PROVE  VerdictHolds' /\ UnnoticedWasMissed'
  BY <1>18 DEF Look, Hang, Unhang, Notice, UnnoticedWasMissed, Unclaimed
<1>19. CASE UNCHANGED allVars
  BY <1>19 DEF allVars, inboxVars, UnnoticedWasMissed, Unclaimed
<1> QED BY <1>7, <1>11, <1>12, <1>13, <1>14, <1>15, <1>16, <1>17, <1>18, <1>19

\* No interplay of the watch, the cached scan and the verdict lets a request lie without a
\* trace that brings the loop back to it, but for the three gaps.
THEOREM RequestsAreNoticed == InboxSpec => []UnnoticedWasMissed
<1>1. InboxInit => NoticeInv
  BY TypeInit DEF InboxInit, Init, NoticeInv, ClaimIsCounted, VerdictHolds,
     UnnoticedWasMissed, Unclaimed
<1>2. NoticeInv /\ [InboxNext]_allVars => NoticeInv'
  BY NoticeStep
<1>3. NoticeInv => UnnoticedWasMissed
  BY DEF NoticeInv
<1> QED BY <1>1, <1>2, <1>3, PTL DEF InboxSpec
=============================================================================
