---------------------------- MODULE Creates_proofs ----------------------------
(***************************************************************************)
(* Proofs about the creates of sessions on their way to a host, for every  *)
(* value of the constants: the time they have, the room that is told of    *)
(* and the scope of the partner that asks. Each section stands for itself. *)
(***************************************************************************)
EXTENDS CreateDeadlines, Fleet, PartnerScope, ListLemmas

-------------------------------------------------------------------------------
(***************************************************************************)
(* CreateDeadlines. For every value of the time-outs: the call outlasts    *)
(* the restores and the hold outlasts the create.  What is inductive is a  *)
(* bound on each stage: an attempt k ends before k budgets have passed     *)
(* since the first began, its stages before its deadline.                  *)
(***************************************************************************)
Spent(k) == k * AttemptBudget

\* Of attempt k of a launch that began at b: a stage s that lasts until u at
\* most, and the deadline d.  Claiming and booting leave time for the rest.
Within(s, k, b, d, u) ==
    /\ k >= 1
    /\ b <= now /\ now <= u
    /\ u <= b + Spent(k)
    /\ s # "destroy" => u <= d /\ d + Overhead <= b + Spent(k)
    /\ s = "claim" => u + SocketWait + LoadTime <= d
    /\ s = "boot" => u + LoadTime <= d

InTime(r) == Within(r.stage, r.attempt, r.began, r.deadline, r.until)

CallInTime ==
    /\ call.state = "calling" => now <= call.until /\ call.until = CreateTimeout
    /\ call.state = "commit" => now <= CreateTimeout + LockWait
                                /\ now <= call.until /\ call.until <= CreateTimeout + LockWait
    /\ call.state = "timeout" => CreateTimeout <= now

DInv == /\ DeadlineTypeOK /\ CallInTime
        /\ \A n \in Request : launch[n].stage \in Restoring => InTime(launch[n])

-------------------------------------------------------------------------------
LEMMA Constants ==
    /\ RemoteTimeout \in Nat /\ Resends \in Nat /\ RestoreTimeout \in Nat
    /\ RestoreRetries \in Nat /\ ClaimTimeout \in Nat /\ Overhead \in Nat
    /\ Grace \in Nat /\ LockWait \in Nat /\ ProbeTime \in Nat
    /\ SocketWait \in Nat /\ LoadTime \in Nat /\ StageTimeout \in Nat
    /\ DestroyTime \in Nat
    /\ RestoreAttempts \in Nat /\ RestoreAttempts >= 1
    /\ AttemptBudget \in Nat /\ AttemptBudget = RestoreTimeout + Overhead
    /\ ProbeTime + SocketWait + LoadTime <= RestoreTimeout
    /\ DestroyTime <= Overhead
    /\ LockWait < Grace
  BY DeadlineAssumption DEF RestoreAttempts, AttemptBudget

LEMMA SpentGrows ==
    /\ Spent(1) = AttemptBudget
    /\ \A k \in Nat : Spent(k) \in Nat /\ Spent(k + 1) = Spent(k) + AttemptBudget
    /\ \A k \in 0..RestoreAttempts : Spent(k) <= Spent(RestoreAttempts)
  <1>1. AttemptBudget \in Nat /\ RestoreAttempts \in Nat
    BY Constants
  <1>2. ASSUME NEW a \in Nat, NEW j \in Nat, NEW k \in Nat, j <= k
        PROVE  j * a <= k * a
    <2>1. PICK d \in Nat : k = j + d
      <3>1. k - j \in Nat /\ k = j + (k - j)
        BY <1>2
      <3> QED BY <3>1
    <2>2. d * a \in Nat /\ j * a \in Nat
      BY <2>1
    <2>3. k * a = j * a + d * a
      BY <2>1
    <2> QED BY <2>2, <2>3
  <1>3. \A k \in Nat : Spent(k) \in Nat /\ Spent(k + 1) = Spent(k) + AttemptBudget
    BY <1>1 DEF Spent
  <1> QED BY <1>1, <1>2, <1>3 DEF Spent

LEMMA CreateTimeoutCovers ==
    /\ CreateTimeout \in Nat
    /\ Spent(RestoreAttempts) + Overhead <= CreateTimeout
    /\ CreateTimeout + Grace <= HoldTime
    /\ HoldTime \in Nat
  <1>1. Spent(RestoreAttempts) \in Nat
    BY Constants, SpentGrows
  <1>2. CreateTimeout = Most(RemoteTimeout, Spent(RestoreAttempts) + Overhead)
    BY DEF CreateTimeout, Spent
  <1>3. HoldTime = Most(RemoteTimeout + Grace,
                        Spent(RestoreAttempts) + Overhead + Grace)
    BY Constants DEF HoldTime, Spent, AttemptBudget
  <1> QED BY Constants, <1>1, <1>2, <1>3 DEF Most

LEMMA TimesAreNat ==
    ASSUME NEW a \in Nat, NEW b \in Nat
    PROVE  Least(a, b) \in Nat /\ Most(a, b) \in Nat
  BY DEF Least, Most

-------------------------------------------------------------------------------
LEMMA InitInTime == DeadlineInit => DInv
  <1> SUFFICES ASSUME DeadlineInit PROVE DInv
    OBVIOUS
  <1>1. 0 \in Request /\ 0 \in 0..RestoreAttempts
    BY Constants DEF Request
  <1>2. \A n \in Request : launch[n] = Idle("unsent")
    BY DEF DeadlineInit
  <1>3. DeadlineTypeOK
    BY <1>1, CreateTimeoutCovers DEF DeadlineInit, DeadlineTypeOK, Idle, Stages
  <1>4. CallInTime
    BY CreateTimeoutCovers DEF DeadlineInit, CallInTime
  <1> QED BY <1>2, <1>3, <1>4 DEF DInv, Idle, Restoring

\* A step of one launch is judged by the record it leaves.
Good(r) == /\ r \in [stage : Stages, attempt : 0..RestoreAttempts, began : Nat,
                     deadline : Nat, until : Nat, again : BOOLEAN]
           /\ r.stage \in Restoring => InTime(r)

LEMMA IdleIsGood ==
    ASSUME NEW stage \in Stages \ Restoring
    PROVE  Good(Idle(stage))
  BY Constants DEF Good, Idle

LEMMA WithinIsGood ==
    ASSUME NEW s \in Stages, NEW k \in 0..RestoreAttempts, NEW b \in Nat,
           NEW d \in Nat, NEW u \in Nat, NEW a \in BOOLEAN,
           s \in Restoring => Within(s, k, b, d, u)
    PROVE  Good([stage |-> s, attempt |-> k, began |-> b, deadline |-> d,
                 until |-> u, again |-> a])
  BY DEF Good, InTime

LEMMA UpdateIsGood ==
    ASSUME NEW r, Good(r), NEW s \in Stages, NEW t \in Nat,
           s \in Restoring => Within(s, r.attempt, r.began, r.deadline, t)
    PROVE  /\ Good([r EXCEPT !.stage = s, !.until = t])
           /\ \A f \in BOOLEAN :
                Good([r EXCEPT !.stage = s, !.until = t, !.again = f])
  BY DEF Good, InTime

LEMMA LaunchIsGood ==
    ASSUME DInv, NEW n \in Request, LaunchStep(n)
    PROVE  \E r : Good(r) /\ launch' = [launch EXCEPT ![n] = r]
  <1> DEFINE stage == launch[n].stage
             k == launch[n].attempt
             b == launch[n].began
             d == launch[n].deadline
             u == launch[n].until
             a == launch[n].again
             Now(r) == launch' = [launch EXCEPT ![n] = r]
             Record(s, j, c, e, t, f) ==
                 [stage |-> s, attempt |-> j, began |-> c, deadline |-> e,
                  until |-> t, again |-> f]
  <1>1. /\ stage \in Stages /\ k \in 0..RestoreAttempts /\ b \in Nat
        /\ d \in Nat /\ u \in Nat /\ a \in BOOLEAN /\ now \in Nat
        /\ k \in Nat /\ k <= RestoreAttempts
    BY Constants DEF DInv, DeadlineTypeOK
  <1>0. Good(launch[n])
    BY DEF DInv, DeadlineTypeOK, Good
  <1>2. stage \in Restoring => Within(stage, k, b, d, u)
    BY DEF DInv, InTime
  <1>3. /\ Spent(k) \in Nat /\ Spent(k + 1) = Spent(k) + AttemptBudget
        /\ Spent(1) = AttemptBudget
    BY <1>1, SpentGrows
  <1>4. ASSUME NEW s \in Stages \ Restoring, Settle(n, s)
        PROVE  \E r : Good(r) /\ Now(r)
    BY <1>4, IdleIsGood DEF Settle
  <1>5. ASSUME NEW s \in Stages, NEW t \in Nat, Enter(n, s, t),
               s \in Restoring => Within(s, k, b, d, now + t)
        PROVE  \E r : Good(r) /\ Now(r)
    <2>1. now + t \in Nat
      BY <1>1, <1>5
    <2>2. Good([launch[n] EXCEPT !.stage = s, !.until = now + t])
      BY <1>0, <1>5, <2>1, UpdateIsGood
    <2> QED BY <1>5, <2>2 DEF Enter
  <1>6. ASSUME NEW f \in BOOLEAN, Undo(n, f),
               Within("destroy", k, b, d, now + DestroyTime)
        PROVE  \E r : Good(r) /\ Now(r)
    <2>1. now + DestroyTime \in Nat /\ "destroy" \in Stages
      BY <1>1, Constants DEF Stages, Timed, Restoring
    <2>2. Good([launch[n] EXCEPT !.stage = "destroy", !.until = now + DestroyTime,
                                 !.again = f])
      BY <1>0, <1>6, <2>1, UpdateIsGood
    <2> QED BY <1>6, <2>2 DEF Undo
  <1>7. ASSUME NEW j \in 1..RestoreAttempts, NEW c \in Nat, c <= now,
               now + AttemptBudget <= c + Spent(j), Attempt(n, j, c)
        PROVE  \E r : Good(r) /\ Now(r)
    <2>1. Now(Record("claim", j, c, now + RestoreTimeout, now + ProbeTime, FALSE))
      BY <1>7 DEF Attempt
    <2>2. j \in Nat /\ j >= 1 /\ Spent(j) \in Nat
      BY <1>7, SpentGrows, Constants
    <2>3. Within("claim", j, c, now + RestoreTimeout, now + ProbeTime)
      BY <1>1, <1>7, <2>2, Constants DEF Within
    <2>4. /\ "claim" \in Stages /\ j \in 0..RestoreAttempts
          /\ now + RestoreTimeout \in Nat /\ now + ProbeTime \in Nat
      BY <1>1, Constants DEF Stages, Timed, Restoring
    <2>5. Good(Record("claim", j, c, now + RestoreTimeout, now + ProbeTime, FALSE))
      BY <2>3, <2>4, WithinIsGood
    <2> QED BY <2>1, <2>5
  <1>8. CASE ClaimWarm(n) \/ WarmEnds(n) \/ Evicted(n) \/ Refused(n)
    <2>1. 3 * Least(RestoreTimeout, ClaimTimeout) \in Nat
      BY Constants, TimesAreNat
    <2>2. {"queued", "failed", "done", "warm", "evict"} \subseteq Stages \ Restoring
      BY DEF Stages, Timed, Restoring
    <2> QED BY <1>4, <1>5, <1>8, <2>1, <2>2, Constants
            DEF ClaimWarm, WarmEnds, Evicted, Refused
  <1>9. CASE RestoreBegins(n)
    BY <1>1, <1>3, <1>7, <1>9, Constants DEF RestoreBegins
  <1>10. CASE Claimed(n)
    <2>1. stage = "claim" /\ Within("boot", k, b, d, now + SocketWait)
      BY <1>1, <1>2, <1>3, <1>10, Constants DEF Claimed, Within, Restoring
    <2> QED BY <1>5, <1>10, <2>1, Constants DEF Claimed, Stages, Timed, Restoring
  <1>11. CASE SocketThere(n)
    <2>1. stage = "boot" /\ Within("load", k, b, d, now + LoadTime)
      BY <1>1, <1>2, <1>3, <1>11, Constants DEF SocketThere, Within, Restoring
    <2> QED BY <1>5, <1>11, <2>1, Constants DEF SocketThere, Stages, Timed, Restoring
  <1>12. CASE SpawnFails(n)
    BY <1>4, <1>12 DEF SpawnFails, Stages, Timed, Restoring
  <1>13. CASE Loaded(n) \/ ReadyNext(n) \/ StableReady(n)
    <2>1. stage \in {"load", "upgrade", "version", "targets", "stable"}
      BY <1>13 DEF Loaded, ReadyNext, StableReady
    <2>2. Within(stage, k, b, d, u)
      BY <1>2, <2>1 DEF Restoring
    <2>3. Left(n) \in Nat /\ now + Left(n) <= d
      BY <1>1, <2>1, <2>2, Constants DEF Left, Least, Most, Within
    <2>4. ASSUME NEW s \in {"upgrade", "version", "targets", "stable"}
          PROVE  s \in Stages /\ Within(s, k, b, d, now + Left(n))
      BY <1>1, <1>3, <2>1, <2>2, <2>3, Constants
      DEF Within, Stages, Timed, Restoring
    <2>5. "done" \in Stages \ Restoring
      BY DEF Stages, Timed, Restoring
    <2>6. CASE Settle(n, "done")
      BY <1>4, <2>5, <2>6
    <2>7. CASE \E s \in {"upgrade", "version", "targets", "stable"} :
                 Enter(n, s, Left(n))
      BY <1>5, <2>3, <2>4, <2>7
    <2> QED BY <1>13, <2>6, <2>7 DEF Loaded, ReadyNext, StableReady
  <1>14. CASE PolicyFails(n) \/ StageTimesOut(n)
    <2>1. stage \in {"upgrade", "version", "targets", "stable"}
      BY <1>14 DEF PolicyFails, StageTimesOut
    <2>2. Within(stage, k, b, d, u)
      BY <1>2, <2>1 DEF Restoring
    <2>3. Within("destroy", k, b, d, now + DestroyTime)
      BY <1>1, <1>3, <2>1, <2>2, Constants DEF Within
    <2> QED BY <1>6, <1>14, <2>3 DEF PolicyFails, StageTimesOut
  <1>15. CASE DestroyDone(n)
    <2>1. stage = "destroy" /\ Within("destroy", k, b, d, u)
      BY <1>2, <1>15 DEF DestroyDone, Restoring
    <2>2. CASE k < RestoreAttempts /\ Attempt(n, k + 1, b)
      <3>1. k + 1 \in 1..RestoreAttempts /\ b <= now
        BY <1>1, <2>1, <2>2, Constants DEF Within
      <3>2. now + AttemptBudget <= b + Spent(k + 1)
        BY <1>1, <1>3, <2>1, Constants DEF Within
      <3> QED BY <1>1, <1>7, <2>2, <3>1, <3>2
    <2>3. CASE Settle(n, "failed")
      BY <1>4, <2>3 DEF Stages, Timed, Restoring
    <2> QED BY <1>15, <2>2, <2>3 DEF DestroyDone
  <1> QED BY <1>8, <1>9, <1>10, <1>11, <1>12, <1>13, <1>14, <1>15 DEF LaunchStep

LEMMA StepInTime == DInv /\ [DeadlineNext]_deadlineVars => DInv'
  <1> SUFFICES ASSUME DInv, [DeadlineNext]_deadlineVars PROVE DInv'
    OBVIOUS
  <1>1. /\ now \in Nat
        /\ launch \in [Request -> [stage : Stages, attempt : 0..RestoreAttempts,
                                   began : Nat, deadline : Nat, until : Nat,
                                   again : BOOLEAN]]
        /\ call.sent \in Request
        /\ \A n \in Request : Good(launch[n])
    BY DEF DInv, DeadlineTypeOK, Good
  <1>2. ASSUME DeadlineTypeOK', CallInTime', UNCHANGED <<now, launch>>
        PROVE  DInv'
    BY <1>2 DEF DInv, InTime, Within
  <1>3. ASSUME UNCHANGED <<now, call>>, NEW n \in Request, NEW r, Good(r),
               launch' = [launch EXCEPT ![n] = r]
        PROVE  DInv'
    <2>1. DeadlineTypeOK'
      BY <1>1, <1>3 DEF DInv, DeadlineTypeOK, Good
    <2>2. CallInTime'
      BY <1>3 DEF DInv, CallInTime
    <2>3. ASSUME NEW m \in Request, launch'[m].stage \in Restoring
          PROVE  InTime(launch[m])'
      <3>1. launch'[m] = IF m = n THEN r ELSE launch[m]
        BY <1>1, <1>3
      <3> QED BY <1>1, <1>3, <2>3, <3>1 DEF Good, InTime, Within
    <2> QED BY <2>1, <2>2, <2>3 DEF DInv
  <1>4. CASE Arrives
    <2>1. Good(Idle("queued"))
      BY IdleIsGood DEF Stages, Timed, Restoring
    <2> QED BY <1>1, <1>3, <1>4, <2>1 DEF Arrives
  <1>5. CASE ConnectionFails
    <2>3. call.sent < Resends => call.sent + 1 \in Request
      <3>1. call.sent \in Nat /\ Resends \in Nat
        BY <1>1, Constants DEF Request
      <3> QED BY <3>1 DEF Request
    <2>1. DeadlineTypeOK'
      BY <1>5, <2>3 DEF DInv, DeadlineTypeOK, ConnectionFails, Resend
    <2>2. CallInTime'
      BY <1>5 DEF DInv, DeadlineTypeOK, CallInTime, ConnectionFails, Resend
    <2> QED BY <1>2, <1>5, <2>1, <2>2 DEF ConnectionFails
  <1>6. CASE Abort
    <2>1. DeadlineTypeOK'
      BY <1>6 DEF DInv, DeadlineTypeOK, Abort
    <2>2. CallInTime'
      BY <1>1, <1>6, CreateTimeoutCovers
      DEF DInv, DeadlineTypeOK, CallInTime, Abort
    <2> QED BY <1>2, <1>6, <2>1, <2>2 DEF Abort
  <1>7. CASE Answered
    <2>3. now + LockWait \in Nat /\ now <= CreateTimeout
      BY <1>1, <1>7, Constants, CreateTimeoutCovers
      DEF DInv, DeadlineTypeOK, CallInTime, Answered
    <2>1. DeadlineTypeOK'
      BY <1>7, <2>3 DEF DInv, DeadlineTypeOK, Answered
    <2>2. CallInTime'
      <3>1. CASE call' = [call EXCEPT !.state = "commit", !.until = now + LockWait]
        <4>1. call'.state = "commit" /\ call'.until = now + LockWait /\ now' = now
          BY <1>7, <3>1 DEF DInv, DeadlineTypeOK, Answered
        <4> QED BY <1>1, <2>3, <4>1, Constants, CreateTimeoutCovers DEF CallInTime
      <3>2. CASE call' = [call EXCEPT !.state = "error"]
        BY <3>2 DEF DInv, DeadlineTypeOK, CallInTime
      <3> QED BY <1>7, <3>1, <3>2 DEF Answered
    <2> QED BY <1>2, <1>7, <2>1, <2>2 DEF Answered
  <1>8. CASE Commit
    <2>1. DeadlineTypeOK'
      BY <1>8 DEF DInv, DeadlineTypeOK, Commit
    <2>2. CallInTime'
      BY <1>8 DEF DInv, DeadlineTypeOK, CallInTime, Commit
    <2> QED BY <1>2, <1>8, <2>1, <2>2 DEF Commit
  <1>9. CASE Tick
    <2>1. DeadlineTypeOK'
      BY <1>9 DEF DInv, DeadlineTypeOK, Tick
    <2>2. CallInTime'
      BY <1>1, <1>9, Constants, CreateTimeoutCovers
      DEF DInv, DeadlineTypeOK, CallInTime, Tick
    <2>3. ASSUME NEW n \in Request, launch[n].stage \in Restoring
          PROVE  InTime(launch[n])'
      <3>1. launch[n].began \in Nat /\ launch[n].until \in Nat
        BY <1>1
      <3>2. now < launch[n].until /\ now' = now + 1 /\ launch' = launch
        BY <1>9, <2>3 DEF Tick, Timed
      <3> QED BY <1>1, <2>3, <3>1, <3>2 DEF Good, InTime, Within
    <2> QED BY <1>9, <2>1, <2>2, <2>3 DEF DInv, Tick
  <1>10. CASE \E n \in Request : LaunchStep(n)
    BY <1>3, <1>10, LaunchIsGood DEF LaunchStep
  <1>11. CASE UNCHANGED deadlineVars
    BY <1>11 DEF deadlineVars, DInv, DeadlineTypeOK, CallInTime, InTime, Within
  <1> QED BY <1>4, <1>5, <1>6, <1>7, <1>8, <1>9, <1>10, <1>11 DEF DeadlineNext

LEMMA InTimeAlways == DeadlineSpec => []DInv
  BY InitInTime, StepInTime, PTL DEF DeadlineSpec

\* The types of the model hold for every value of the time-outs.
THEOREM DeadlineTypes == DeadlineSpec => []DeadlineTypeOK
  <1>1. DInv => DeadlineTypeOK
    BY DEF DInv
  <1> QED BY <1>1, InTimeAlways, PTL

\* Whatever the time-outs and retries are set to, the call of the control
\* plane outlasts every restore that began within the 10 s it allows for.
THEOREM CallsOutlastRestores == DeadlineSpec => []ClientOutlastsRestores
  <1>1. ASSUME DInv, call.state = "timeout", NEW n \in Request,
               launch[n].stage \in Restoring
        PROVE  launch[n].began >= Overhead
    <2>1. InTime(launch[n]) /\ CreateTimeout <= now
      BY <1>1 DEF DInv, CallInTime
    <2>2. /\ launch[n].attempt \in 0..RestoreAttempts /\ launch[n].began \in Nat
          /\ launch[n].until \in Nat /\ now \in Nat
      BY <1>1 DEF DInv, DeadlineTypeOK
    <2>3. Spent(launch[n].attempt) <= Spent(RestoreAttempts)
      BY <2>2, SpentGrows
    <2>4. /\ launch[n].attempt \in Nat
          /\ Spent(launch[n].attempt) \in Nat /\ Spent(RestoreAttempts) \in Nat
      <3>1. launch[n].attempt \in Nat /\ RestoreAttempts \in Nat
        BY <2>2, Constants
      <3> QED BY <3>1, SpentGrows
    <2> QED BY <2>1, <2>2, <2>3, <2>4, CreateTimeoutCovers, Constants
            DEF InTime, Within
  <1>2. DInv => ClientOutlastsRestores
    BY <1>1 DEF ClientOutlastsRestores
  <1> QED BY <1>2, InTimeAlways, PTL

\* The hold on the host is there until the commit, for any setting too, as
\* long as the store's lock is given up before the 5 s that the hold adds.
THEOREM HoldsOutlastCreates == DeadlineSpec => []HoldOutlastsCreate
  <1>1. DInv => HoldOutlastsCreate
    BY CreateTimeoutCovers, Constants
    DEF DInv, DeadlineTypeOK, CallInTime, HoldOutlastsCreate
  <1> QED BY <1>1, InTimeAlways, PTL

-------------------------------------------------------------------------------
(***************************************************************************)
(* Fleet. For any hosts, creates and configurations.                       *)
(***************************************************************************)
\* The reservations made on the report of h as it is.
WarmOn(h) == {c \in fresh : held[c].host = h /\ held[c].warm}
ColdOn(h) == {c \in fresh : held[c].host = h /\ ~held[c].warm}

Plain(h) == Setup[h].mode = "firecracker" \/ Setup[h].pool = 0

\* A report tells no more warm VMs than there may be, and closes its host only
\* for a reason.
Honest(h, r) ==
    /\ r.warm <= Setup[h].pool
    /\ r.status = "no-admit" =>
         DeriveStatus(h, r.strain, r.active, r.renderers, r.microvms, r.warm) = "no-admit"

Shared(h) ==
    Plain(h) =>
      /\ Cardinality(WarmOn(h)) <= record[h].warm
      /\ ColdOn(h) # {} =>
           /\ record[h].active + Cardinality(ColdOn(h)) <= Setup[h].sessions
           /\ Setup[h].mode = "firecracker"
                => record[h].microvms + Cardinality(ColdOn(h)) <= Setup[h].microvms

Holding == {c \in Creation : held[c].host # Unasked}

HoldsInv ==
    /\ IsFiniteSet(Holding)
    /\ fresh \subseteq Holding
    /\ \A c \in fresh : record[held[c].host] # NoReport
    /\ \A c \in Creation : create[c] \in {"new", "waiting"} => held[c] = NoHold

AgentsInv ==
    /\ \A h \in Host : /\ IsFiniteSet(agent[h].launching)
                       /\ IsFiniteSet(agent[h].listed)
                       /\ agent[h].warm <= Setup[h].pool
    /\ \A m \in mail : Honest(m.host, m.report)

RecordsInv ==
    /\ record \in [Host -> Report \cup {NoReport}]
    /\ \A h \in Host : record[h] # NoReport => Honest(h, record[h]) /\ Shared(h)

FInv == FleetTypeOK /\ HoldsInv /\ AgentsInv /\ RecordsInv

-------------------------------------------------------------------------------
LEMMA Setups ==
    ASSUME NEW h \in Host
    PROVE  /\ Setup[h].sessions \in Nat /\ Setup[h].renderers \in Nat
           /\ Setup[h].microvms \in Nat /\ Setup[h].memory \in Nat
           /\ Setup[h].pool \in Nat
           /\ Setup[h].mode \in {"baseline", "managed", "firecracker"}
           /\ h # Unasked
BY FleetAssumption DEF FleetAssumption

LEMMA Reports ==
    ASSUME FInv, NEW h \in Host, record[h] # NoReport
    PROVE  /\ record[h] \in Report
           /\ record[h].active \in Nat /\ record[h].renderers \in Nat
           /\ record[h].microvms \in Nat /\ record[h].warm \in Nat
           /\ record[h].strain \in Strain
           /\ Honest(h, record[h]) /\ Shared(h)
BY DEF FInv, FleetTypeOK, RecordsInv, Report

LEMMA NotReports == NoReport \notin Report
BY DEF NoReport, Report

LEMMA FiniteHolds ==
    ASSUME FInv, NEW h \in Host
    PROVE  /\ On(h) \subseteq Holding /\ IsFiniteSet(On(h))
           /\ WarmOn(h) \subseteq On(h) /\ ColdOn(h) \subseteq On(h)
           /\ IsFiniteSet(WarmOn(h)) /\ IsFiniteSet(ColdOn(h))
           /\ Cardinality(WarmOn(h)) \in Nat /\ Cardinality(ColdOn(h)) \in Nat
<1>1. On(h) \subseteq Holding
  BY Setups DEF On, Holding
<1>2. WarmOn(h) \subseteq On(h) /\ ColdOn(h) \subseteq On(h)
  BY DEF FInv, FleetTypeOK, WarmOn, ColdOn, On
<1>3. /\ IsFiniteSet(On(h)) /\ IsFiniteSet(WarmOn(h)) /\ IsFiniteSet(ColdOn(h))
  BY <1>1, <1>2, FS_Subset DEF FInv, HoldsInv
<1> QED BY <1>1, <1>2, <1>3, FS_CardinalityType

\* What the scheduler sees of a host is its report and all reservations on it;
\* those that expect a warm VM take one each while there are any.
LEMMA Promised ==
    ASSUME FInv, NEW h \in Host, record[h] # NoReport
    PROVE  \E n, w, k \in Nat :
             /\ n = Cardinality(On(h))
             /\ w = Cardinality({c \in On(h) : held[c].warm})
             /\ n - w = Cardinality({c \in On(h) : ~held[c].warm})
             /\ w <= n /\ k <= w /\ k <= record[h].warm
             /\ Setup[h].mode = "firecracker" => k \in {w, record[h].warm}
             /\ Effective(h).active = record[h].active + n
             /\ Effective(h).renderers = record[h].renderers + n
             /\ Effective(h).warm = record[h].warm - k
             /\ Effective(h).strain = record[h].strain
             /\ Setup[h].mode = "firecracker"
                  => Effective(h).microvms = record[h].microvms + n - k
<1> DEFINE W == {c \in On(h) : held[c].warm}
           C == {c \in On(h) : ~held[c].warm}
<1>1. W \subseteq On(h) /\ C = On(h) \ W /\ IsFiniteSet(On(h)) /\ W \cap On(h) = W
  BY FiniteHolds
<1>2. IsFiniteSet(W) /\ Cardinality(W) <= Cardinality(On(h))
  BY <1>1, FS_Subset
<1> HIDE DEF W, C
<1>3. Cardinality(On(h) \ W) = Cardinality(On(h)) - Cardinality(On(h) \cap W)
  BY <1>1, <1>2, FS_Difference
<1>4. PICK n \in Nat : n = Cardinality(On(h))
  BY <1>1, FS_CardinalityType
<1>5. PICK w \in Nat : w = Cardinality(W)
  BY <1>2, FS_CardinalityType
<1>6. n - w = Cardinality(C) /\ w <= n
  <2>1. On(h) \cap W = W
    BY <1>1
  <2> QED BY <1>1, <1>2, <1>3, <1>4, <1>5, <2>1
<1>7. PICK r \in Report : r = record[h]
  BY Reports
<1>8. r.active \in Nat /\ r.renderers \in Nat /\ r.microvms \in Nat /\ r.warm \in Nat
  BY <1>7 DEF Report
<1>9. PICK k \in Nat : /\ k = TakenWarm(h) /\ k <= w /\ k <= r.warm
                       /\ Setup[h].mode = "firecracker" => k \in {w, r.warm}
  <2>1. PICK v \in Nat : v = r.warm
    BY <1>8
  <2>2. TakenWarm(h) = IF Setup[h].mode = "firecracker" THEN Min({v, w}) ELSE 0
    BY <1>5, <1>7, <2>1 DEF TakenWarm, Count, W
  <2>3. Min({v, w}) \in {v, w} /\ Min({v, w}) <= v /\ Min({v, w}) <= w
    <3>1. v \in Int /\ w \in Int
      BY <1>5, <2>1
    <3> QED BY <3>1, MinTwo
  <2> QED BY <2>1, <2>2, <2>3
<1>10. Effective(h) =
         [r EXCEPT !.active = @ + n, !.renderers = @ + n, !.warm = @ - k,
                   !.microvms = IF Setup[h].mode = "firecracker" THEN @ + n - k ELSE @]
  BY <1>4, <1>7, <1>9 DEF Effective, Count
<1>11. /\ Effective(h).active = r.active + n
       /\ Effective(h).renderers = r.renderers + n
       /\ Effective(h).warm = r.warm - k
       /\ Effective(h).strain = r.strain
       /\ Setup[h].mode = "firecracker" => Effective(h).microvms = r.microvms + n - k
  BY <1>10 DEF Report
<1> QED BY <1>4, <1>5, <1>6, <1>7, <1>9, <1>11 DEF W, C

\* A closed host has no room.
LEMMA ClosedHasNoRoom == FInv => ClosedHostsAreFull
<1> SUFFICES ASSUME FInv, NEW h \in Host, Plain(h), record[h] # NoReport,
                    record[h].status = "no-admit", record[h].strain # "cpu",
                    NEW c \in Creation, HasRoom(h, c)
             PROVE  FALSE
  BY DEF ClosedHostsAreFull, Plain
<1>1. PICK n, w, k \in Nat :
             /\ w <= n /\ k <= w /\ k <= record[h].warm
             /\ Setup[h].mode = "firecracker" => k \in {w, record[h].warm}
             /\ Effective(h).active = record[h].active + n
             /\ Effective(h).renderers = record[h].renderers + n
             /\ Effective(h).warm = record[h].warm - k
             /\ Effective(h).strain = record[h].strain
             /\ Setup[h].mode = "firecracker"
                  => Effective(h).microvms = record[h].microvms + n - k
  BY Promised
<1>2. PICK a, q, m, v \in Nat : /\ a = record[h].active /\ q = record[h].renderers
                                /\ m = record[h].microvms /\ v = record[h].warm
  BY Reports
<1>3. PICK st \in Strain : st = record[h].strain /\ st # "cpu"
  BY Reports
<1>4. /\ DeriveStatus(h, st, a, q, m, v) = "no-admit" /\ v <= Setup[h].pool
  BY <1>2, <1>3, Reports DEF Honest
<1>5. WarmFor(h, c) > 0 => v > 0 /\ Effective(h).warm > 0
  BY <1>1, <1>2 DEF WarmFor
<1>6. v > 0 => Setup[h].mode = "firecracker"
  BY <1>2, <1>4, Setups DEF Plain
<1>7. PICK e \in Nat : e = Effective(h).active /\ e >= a
  BY <1>1, <1>2
<1>8. PICK f \in Nat : f = Effective(h).renderers /\ f >= q
  BY <1>1, <1>2
<1>9. v = 0 /\ Setup[h].mode = "firecracker" =>
        Effective(h).microvms \in Nat /\ Effective(h).microvms >= m
  BY <1>1, <1>2
<1>10. /\ e < Setup[h].sessions \/ WarmFor(h, c) > 0
       /\ f < Setup[h].renderers
       /\ Setup[h].mode # "baseline" => st # "host"
       /\ Setup[h].mode = "firecracker" =>
            Effective(h).microvms < Setup[h].microvms \/ WarmFor(h, c) > 0
  BY <1>1, <1>3, <1>7, <1>8 DEF HasRoom
<1>11. \/ a >= Setup[h].sessions /\ ~(Setup[h].mode = "firecracker" /\ v > 0)
       \/ /\ Setup[h].mode # "baseline"
          /\ \/ st = "host"
             \/ q >= Setup[h].renderers
             \/ /\ Setup[h].mode = "firecracker" /\ m >= Setup[h].microvms
                /\ ~(Setup[h].mode = "firecracker" /\ v > 0)
  BY <1>3, <1>4 DEF DeriveStatus, Strain
<1> QED BY <1>2, <1>5, <1>6, <1>7, <1>8, <1>9, <1>10, <1>11, Setups

LEMMA FInvInit == FleetInit => FInv
<1> SUFFICES ASSUME FleetInit PROVE FInv
  OBVIOUS
<1>1. FleetTypeOK
  BY DEF FleetInit, FleetTypeOK, Down, NoHold, NoReport
<1>2. HoldsInv
  <2>1. Holding = {} /\ fresh = {}
    BY DEF FleetInit, Holding, NoHold
  <2> QED BY <2>1, FS_EmptySet DEF FleetInit, HoldsInv
<1>3. AgentsInv
  <2>1. \A h \in Host : agent[h].launching = {} /\ agent[h].listed = {} /\ agent[h].warm = 0
    BY DEF FleetInit, Down
  <2>2. mail = {}
    BY DEF FleetInit
  <2>3. \A h \in Host : 0 <= Setup[h].pool
    BY Setups
  <2>4. \A h \in Host : IsFiniteSet(agent[h].launching) /\ IsFiniteSet(agent[h].listed)
    BY <2>1, FS_EmptySet, Zenon
  <2> QED BY <2>1, <2>2, <2>3, <2>4 DEF AgentsInv
<1>4. RecordsInv
  BY DEF FleetInit, RecordsInv
<1> QED BY <1>1, <1>2, <1>3, <1>4 DEF FInv

\* With fewer reservations the report of a host is still good for them.
LEMMA FewerFit ==
    ASSUME FInv, NEW h \in Host, record[h] # NoReport, record'[h] = record[h],
           WarmOn(h)' \subseteq WarmOn(h), ColdOn(h)' \subseteq ColdOn(h)
    PROVE  Shared(h)'
<1>1. PICK v, m, a \in Nat : v = record[h].warm /\ m = record[h].microvms /\ a = record[h].active
  BY Reports
<1>2. /\ IsFiniteSet(WarmOn(h)) /\ IsFiniteSet(ColdOn(h))
      /\ Cardinality(WarmOn(h)) \in Nat /\ Cardinality(ColdOn(h)) \in Nat
  BY FiniteHolds
<1>3. /\ Cardinality(WarmOn(h)') <= Cardinality(WarmOn(h)) /\ Cardinality(WarmOn(h)') \in Nat
      /\ Cardinality(ColdOn(h)') <= Cardinality(ColdOn(h)) /\ Cardinality(ColdOn(h)') \in Nat
  BY <1>2, FS_Subset, FS_CardinalityType
<1>4. Shared(h)
  BY Reports
<1>5. /\ v = record'[h].warm /\ m = record'[h].microvms /\ a = record'[h].active
  BY <1>1
<1>6. ColdOn(h)' # {} => ColdOn(h) # {}
  OBVIOUS
<1>7. ASSUME Plain(h)
      PROVE  /\ Cardinality(WarmOn(h)') <= v
             /\ ColdOn(h)' # {} =>
                  /\ a + Cardinality(ColdOn(h)') <= Setup[h].sessions
                  /\ Setup[h].mode = "firecracker"
                       => m + Cardinality(ColdOn(h)') <= Setup[h].microvms
  BY <1>1, <1>2, <1>3, <1>4, <1>6, <1>7, Setups DEF Shared
<1> QED BY <1>5, <1>7 DEF Shared, Plain

\* Steps that give back reservations, or take none.
LEMMA LesserHolds ==
    ASSUME FInv, UNCHANGED <<agent, record, mail>>,
           NEW c \in Creation,
           create' \in [Creation -> {"new", "waiting", "asking", "over"}],
           \A d \in Creation : d # c => create'[d] = create[d],
           \/ held' = held /\ fresh' = fresh
              /\ (create'[c] \in {"new", "waiting"} => create[c] \in {"new", "waiting"})
           \/ held' = [held EXCEPT ![c] = NoHold] /\ fresh' = fresh \ {c}
    PROVE  FInv'
<1>1. /\ held' \in [Creation -> [host : Host \cup {Unasked}, warm : BOOLEAN]]
      /\ \A d \in Creation : d \in fresh' => d \in fresh /\ held'[d] = held[d]
      /\ \A d \in Creation : held'[d] \in {held[d], NoHold}
      /\ fresh' \subseteq fresh /\ fresh \subseteq Creation
  <2>1. NoHold \in [host : Host \cup {Unasked}, warm : BOOLEAN]
    BY DEF NoHold
  <2> QED BY <2>1 DEF FInv, FleetTypeOK
<1>2. NoHold.host = Unasked
  BY DEF NoHold
<1>3. FleetTypeOK'
  BY <1>1 DEF FInv, FleetTypeOK
<1>4. HoldsInv'
  <2>1. Holding' \subseteq Holding
    BY <1>1, <1>2 DEF Holding
  <2>2. IsFiniteSet(Holding')
    BY <2>1, FS_Subset DEF FInv, HoldsInv
  <2>3. fresh' \subseteq Holding'
    BY <1>1 DEF FInv, HoldsInv, Holding
  <2>4. \A d \in Creation : create'[d] \in {"new", "waiting"} => held'[d] = NoHold
    BY <1>1 DEF FInv, FleetTypeOK, HoldsInv
  <2> QED BY <1>1, <2>2, <2>3, <2>4 DEF FInv, HoldsInv
<1>5. AgentsInv'
  BY DEF FInv, AgentsInv, Honest, DeriveStatus
<1>6. RecordsInv'
  <2>1. ASSUME NEW h \in Host, record'[h] # NoReport PROVE Honest(h, record[h])' /\ Shared(h)'
    <3>1. WarmOn(h)' \subseteq WarmOn(h) /\ ColdOn(h)' \subseteq ColdOn(h)
      BY <1>1 DEF WarmOn, ColdOn
    <3>2. Shared(h)'
      BY <2>1, <3>1, FewerFit
    <3> QED BY <2>1, <3>2, Reports DEF Honest, DeriveStatus
  <2> QED BY <2>1 DEF FInv, RecordsInv
<1> QED BY <1>3, <1>4, <1>5, <1>6 DEF FInv

LEMMA CreatesKeep ==
    ASSUME FInv, NEW c \in Creation,
           NoHost(c) \/ Release(c) \/ HandlerDies(c) \/ HoldExpires(c)
    PROVE  FInv'
<1>1. create \in [Creation -> {"new", "waiting", "asking", "over"}]
  BY DEF FInv, FleetTypeOK
<1>2. CASE NoHost(c)
  BY <1>1, <1>2, LesserHolds DEF NoHost
<1>3. CASE Release(c)
  BY <1>1, <1>3, LesserHolds DEF Release
<1>4. CASE HandlerDies(c)
  BY <1>1, <1>4, LesserHolds DEF HandlerDies
<1>5. CASE HoldExpires(c)
  BY <1>1, <1>5, LesserHolds DEF HoldExpires
<1> QED BY <1>2, <1>3, <1>4, <1>5

\* The agents go on, the store does not.
LEMMA AgentsKeep ==
    ASSUME FInv, UNCHANGED <<record, held, create, fresh>>,
           agent' \in [Host -> [up : BOOLEAN, launching : SUBSET Creation,
                                listed : SUBSET Creation, warm : Nat]],
           \A m \in mail' : m.host \in Host /\ m.report \in Report,
           AgentsInv'
    PROVE  FInv'
<1>1. FleetTypeOK'
  BY DEF FInv, FleetTypeOK
<1>2. HoldsInv' /\ RecordsInv'
  <2>1. Holding' = Holding
    BY DEF Holding
  <2>2. \A h \in Host : WarmOn(h)' = WarmOn(h) /\ ColdOn(h)' = ColdOn(h)
    BY DEF WarmOn, ColdOn
  <2>3. \A h \in Host : Shared(h) => Shared(h)'
    BY <2>2 DEF Shared, Plain
  <2>4. \A h \in Host : Honest(h, record[h]) => Honest(h, record[h])'
    BY DEF Honest, DeriveStatus
  <2> QED BY <2>1, <2>3, <2>4 DEF FInv, HoldsInv, RecordsInv
<1> QED BY <1>1, <1>2 DEF FInv

LEMMA AgentChanges ==
    ASSUME FInv, NEW h \in Host, NEW a, Change(h, a),
           a \in [up : BOOLEAN, launching : SUBSET Creation,
                  listed : SUBSET Creation, warm : Nat],
           IsFiniteSet(a.launching), IsFiniteSet(a.listed), a.warm <= Setup[h].pool
    PROVE  FInv'
<1>1. /\ agent' = [agent EXCEPT ![h] = a] /\ UNCHANGED <<record, mail, held, create, fresh>>
  BY DEF Change
<1>2. /\ agent' \in [Host -> [up : BOOLEAN, launching : SUBSET Creation,
                              listed : SUBSET Creation, warm : Nat]]
      /\ agent'[h] = a /\ \A g \in Host : g # h => agent'[g] = agent[g]
  BY <1>1 DEF FInv, FleetTypeOK
<1>3. AgentsInv'
  <2>1. \A m \in mail : Honest(m.host, m.report)'
    BY DEF FInv, AgentsInv, Honest, DeriveStatus
  <2>2. \A g \in Host : /\ IsFiniteSet(agent'[g].launching)
                        /\ IsFiniteSet(agent'[g].listed)
                        /\ agent'[g].warm <= Setup[g].pool
    BY <1>2 DEF FInv, AgentsInv
  <2> QED BY <1>1, <2>1, <2>2 DEF AgentsInv
<1> QED BY <1>1, <1>2, <1>3, AgentsKeep DEF FInv, FleetTypeOK

LEMMA SessionsKeep ==
    ASSUME FInv, NEW h \in Host, NEW c \in Creation,
           \/ AgentAccepts(h, c) \/ AgentLists(h, c)
           \/ AgentGivesUp(h, c) \/ AgentEndsSession(h, c)
    PROVE  FInv'
<1>1. PICK a : a = agent[h]
  OBVIOUS
<1>2. /\ a \in [up : BOOLEAN, launching : SUBSET Creation,
                listed : SUBSET Creation, warm : Nat]
      /\ IsFiniteSet(a.launching) /\ IsFiniteSet(a.listed) /\ a.warm <= Setup[h].pool
  BY <1>1 DEF FInv, FleetTypeOK, AgentsInv
<1>3. /\ IsFiniteSet(a.launching \cup {c}) /\ IsFiniteSet(a.launching \ {c})
      /\ IsFiniteSet(a.listed \cup {c}) /\ IsFiniteSet(a.listed \ {c})
  BY <1>2, FS_AddElement, FS_RemoveElement
<1>4. CASE AgentAccepts(h, c)
  <2>1. Change(h, [a EXCEPT !.launching = @ \cup {c}])
    BY <1>1, <1>4 DEF AgentAccepts
  <2>2. PICK b : b = [a EXCEPT !.launching = @ \cup {c}]
    OBVIOUS
  <2>3. /\ b \in [up : BOOLEAN, launching : SUBSET Creation,
                  listed : SUBSET Creation, warm : Nat]
        /\ b.launching = a.launching \cup {c} /\ b.listed = a.listed /\ b.warm = a.warm
    BY <1>2, <2>2
  <2> QED BY <1>2, <1>3, <2>1, <2>2, <2>3, AgentChanges
<1>5. CASE AgentLists(h, c)
  <2>1. PICK w \in {0, 1} :
          /\ w <= a.warm
          /\ Change(h, [a EXCEPT !.launching = @ \ {c}, !.listed = @ \cup {c}, !.warm = @ - w])
    BY <1>1, <1>5 DEF AgentLists
  <2>2. PICK b : b = [a EXCEPT !.launching = @ \ {c}, !.listed = @ \cup {c}, !.warm = @ - w]
    OBVIOUS
  <2>3. a.warm - w \in Nat /\ a.warm - w <= Setup[h].pool
    BY <1>2, <2>1, Setups
  <2>4. /\ b \in [up : BOOLEAN, launching : SUBSET Creation,
                  listed : SUBSET Creation, warm : Nat]
        /\ b.launching = a.launching \ {c} /\ b.listed = a.listed \cup {c}
        /\ b.warm = a.warm - w
    BY <1>2, <2>2, <2>3
  <2> QED BY <1>3, <2>1, <2>2, <2>3, <2>4, AgentChanges
<1>6. CASE AgentGivesUp(h, c)
  <2>1. Change(h, [a EXCEPT !.launching = @ \ {c}])
    BY <1>1, <1>6 DEF AgentGivesUp
  <2>2. PICK b : b = [a EXCEPT !.launching = @ \ {c}]
    OBVIOUS
  <2>3. /\ b \in [up : BOOLEAN, launching : SUBSET Creation,
                  listed : SUBSET Creation, warm : Nat]
        /\ b.launching = a.launching \ {c} /\ b.listed = a.listed /\ b.warm = a.warm
    BY <1>2, <2>2
  <2> QED BY <1>2, <1>3, <2>1, <2>2, <2>3, AgentChanges
<1>7. CASE AgentEndsSession(h, c)
  <2>1. Change(h, [a EXCEPT !.listed = @ \ {c}])
    BY <1>1, <1>7 DEF AgentEndsSession
  <2>2. PICK b : b = [a EXCEPT !.listed = @ \ {c}]
    OBVIOUS
  <2>3. /\ b \in [up : BOOLEAN, launching : SUBSET Creation,
                  listed : SUBSET Creation, warm : Nat]
        /\ b.launching = a.launching /\ b.listed = a.listed \ {c} /\ b.warm = a.warm
    BY <1>2, <2>2
  <2> QED BY <1>2, <1>3, <2>1, <2>2, <2>3, AgentChanges
<1> QED BY <1>4, <1>5, <1>6, <1>7

LEMMA PoolsKeep ==
    ASSUME FInv, NEW h \in Host, Refill(h) \/ AgentDies(h) PROVE FInv'
<1>1. PICK a : a = agent[h]
  OBVIOUS
<1>2. /\ a \in [up : BOOLEAN, launching : SUBSET Creation,
                listed : SUBSET Creation, warm : Nat]
      /\ IsFiniteSet(a.launching) /\ IsFiniteSet(a.listed) /\ a.warm <= Setup[h].pool
  BY <1>1 DEF FInv, FleetTypeOK, AgentsInv
<1>3. CASE Refill(h)
  <2>1. Change(h, [a EXCEPT !.warm = @ + 1]) /\ a.warm < Setup[h].pool
    BY <1>1, <1>3 DEF Refill
  <2>2. PICK b : b = [a EXCEPT !.warm = @ + 1]
    OBVIOUS
  <2>3. a.warm + 1 \in Nat /\ a.warm + 1 <= Setup[h].pool
    BY <1>2, <2>1, Setups
  <2>4. /\ b \in [up : BOOLEAN, launching : SUBSET Creation,
                  listed : SUBSET Creation, warm : Nat]
        /\ b.launching = a.launching /\ b.listed = a.listed /\ b.warm = a.warm + 1
    BY <1>2, <2>2, <2>3
  <2> QED BY <1>2, <2>1, <2>2, <2>3, <2>4, AgentChanges
<1>4. CASE AgentDies(h)
  <2>1. Change(h, Down)
    BY <1>4 DEF AgentDies
  <2>2. /\ Down \in [up : BOOLEAN, launching : SUBSET Creation,
                     listed : SUBSET Creation, warm : Nat]
        /\ Down.launching = {} /\ Down.listed = {} /\ Down.warm = 0
    BY DEF Down
  <2>3. IsFiniteSet(Down.launching) /\ IsFiniteSet(Down.listed)
    BY <2>2, FS_EmptySet, Zenon
  <2>4. Down.warm <= Setup[h].pool
    BY <2>2, Setups
  <2> HIDE DEF Down
  <2> QED BY <2>1, <2>2, <2>3, <2>4, AgentChanges
<1> QED BY <1>3, <1>4

\* A new report makes the reservations on the one before those of the past.
LEMMA ReportsReplace ==
    ASSUME FInv, NEW h \in Host, NEW r \in Report, Honest(h, r),
           UNCHANGED <<held, create>>,
           record' = [record EXCEPT ![h] = r],
           fresh' = {c \in fresh : held[c].host # h}
    PROVE  /\ HoldsInv' /\ RecordsInv'
           /\ \A g \in Host : record'[g] # NoReport => record'[g] \in Report
<1>1. /\ record' \in [Host -> Report \cup {NoReport}] /\ record'[h] = r
      /\ \A g \in Host : g # h => record'[g] = record[g]
  BY DEF FInv, RecordsInv
<1>2. /\ r # NoReport /\ r.warm \in Nat /\ r.status \in {"healthy", "no-admit"}
  BY NotReports DEF Report
<1>3. fresh' \subseteq fresh /\ fresh \subseteq Creation
  BY DEF FInv, FleetTypeOK
<1>4. HoldsInv'
  <2>1. Holding' = Holding
    BY DEF Holding
  <2>2. \A c \in fresh : held[c].host \in Host
    BY <1>3 DEF FInv, FleetTypeOK, HoldsInv, Holding
  <2>3. \A c \in fresh' : record'[held'[c].host] # NoReport
    BY <1>1, <1>3, <2>2 DEF FInv, HoldsInv
  <2> QED BY <1>3, <2>1, <2>3 DEF FInv, HoldsInv
<1>5. ASSUME NEW g \in Host, record'[g] # NoReport PROVE Honest(g, record[g])' /\ Shared(g)'
  <2>1. CASE g = h
    <3>1. WarmOn(h)' = {} /\ ColdOn(h)' = {}
      BY DEF WarmOn, ColdOn
    <3>2. Cardinality(WarmOn(h)') = 0
      BY <3>1, FS_EmptySet, Zenon
    <3>3. Shared(h)'
      BY <1>1, <1>2, <3>1, <3>2 DEF Shared
    <3> QED BY <1>1, <2>1, <3>3 DEF Honest, DeriveStatus
  <2>2. CASE g # h
    <3>1. WarmOn(g)' \subseteq WarmOn(g) /\ ColdOn(g)' \subseteq ColdOn(g)
      BY DEF WarmOn, ColdOn
    <3>2. record'[g] = record[g]
      BY <1>1, <2>2
    <3>3. Shared(g)'
      BY <1>5, <3>1, <3>2, FewerFit
    <3>4. Honest(g, record[g])
      BY <1>5, <3>2, Reports
    <3> QED BY <3>2, <3>3, <3>4 DEF Honest, DeriveStatus
  <2> QED BY <2>1, <2>2
<1>6. RecordsInv'
  BY <1>1, <1>5 DEF RecordsInv
<1> QED BY <1>1, <1>4, <1>6

LEMMA RegisterKeeps == ASSUME FInv, NEW h \in Host, Register(h) PROVE FInv'
<1>1. PICK r : r = [status |-> "healthy", active |-> 0, renderers |-> 0,
                    microvms |-> 0, warm |-> 0, strain |-> "none"]
  OBVIOUS
<1>2. /\ UNCHANGED <<mail, held, create>>
      /\ agent' = [agent EXCEPT ![h].up = TRUE]
      /\ record' = [record EXCEPT ![h] = r]
      /\ fresh' = {c \in fresh : held[c].host # h}
  BY <1>1 DEF Register
<1>3. r \in Report /\ r.warm = 0 /\ r.status = "healthy"
  BY <1>1 DEF Report, Strain
<1>4. Honest(h, r)
  BY <1>3, Setups DEF Honest
<1>5. /\ HoldsInv' /\ RecordsInv'
      /\ \A g \in Host : record'[g] # NoReport => record'[g] \in Report
  BY <1>2, <1>3, <1>4, ReportsReplace
<1>6. /\ agent' \in [Host -> [up : BOOLEAN, launching : SUBSET Creation,
                              listed : SUBSET Creation, warm : Nat]]
      /\ \A g \in Host : /\ agent'[g].launching = agent[g].launching
                         /\ agent'[g].listed = agent[g].listed
                         /\ agent'[g].warm = agent[g].warm
  BY <1>2 DEF FInv, FleetTypeOK
<1>7. FleetTypeOK'
  BY <1>2, <1>5, <1>6 DEF FInv, FleetTypeOK
<1>8. AgentsInv'
  <2>1. \A m \in mail : Honest(m.host, m.report)'
    BY DEF FInv, AgentsInv, Honest, DeriveStatus
  <2> QED BY <1>2, <1>6, <2>1 DEF FInv, AgentsInv
<1> QED BY <1>5, <1>7, <1>8 DEF FInv

\* A heartbeat is honest: its status is derived from what it tells.
LEMMA HeartbeatKeeps == ASSUME FInv, NEW h \in Host, Heartbeat(h) PROVE FInv'
<1>1. UNCHANGED <<agent, record, held, create, fresh>>
  BY DEF Heartbeat
<1>2. PICK a : a = agent[h]
  OBVIOUS
<1>3. /\ a \in [up : BOOLEAN, launching : SUBSET Creation,
                listed : SUBSET Creation, warm : Nat]
      /\ IsFiniteSet(a.launching) /\ IsFiniteSet(a.listed) /\ a.warm <= Setup[h].pool
  BY <1>2 DEF FInv, FleetTypeOK, AgentsInv
<1>4. /\ Cardinality(a.launching \cup a.listed) \in Nat
      /\ Cardinality(a.listed) \in Nat /\ Cardinality(a.launching) \in Nat
  BY <1>3, FS_Union, FS_CardinalityType
<1>5. \E strain \in Strain, spawned \in 0..Cardinality(a.launching) :
        LET active == Cardinality(a.launching \cup a.listed)
            renderers == Cardinality(a.listed)
            warm == a.warm
            microvms == IF Setup[h].mode = "firecracker"
                        THEN a.warm + Cardinality(a.listed) + spawned ELSE 0
        IN  mail' = mail \cup
              {[host |-> h,
                report |-> [status |-> DeriveStatus(h, strain, active, renderers,
                                                    microvms, warm),
                            active |-> active, renderers |-> renderers,
                            microvms |-> microvms, warm |-> warm,
                            strain |-> strain]]}
  BY <1>2 DEF Heartbeat, Count, Busy, Machines
<1>6. PICK strain \in Strain, active, renderers, microvms, warm \in Nat :
        /\ warm <= Setup[h].pool
        /\ mail' = mail \cup
              {[host |-> h,
                report |-> [status |-> DeriveStatus(h, strain, active, renderers,
                                                    microvms, warm),
                            active |-> active, renderers |-> renderers,
                            microvms |-> microvms, warm |-> warm,
                            strain |-> strain]]}
  <2>1. PICK strain \in Strain, spawned \in 0..Cardinality(a.launching) :
        LET active == Cardinality(a.launching \cup a.listed)
            renderers == Cardinality(a.listed)
            warm == a.warm
            microvms == IF Setup[h].mode = "firecracker"
                        THEN a.warm + Cardinality(a.listed) + spawned ELSE 0
        IN  mail' = mail \cup
              {[host |-> h,
                report |-> [status |-> DeriveStatus(h, strain, active, renderers,
                                                    microvms, warm),
                            active |-> active, renderers |-> renderers,
                            microvms |-> microvms, warm |-> warm,
                            strain |-> strain]]}
    BY <1>5
  <2>2. PICK active \in Nat : active = Cardinality(a.launching \cup a.listed)
    BY <1>4
  <2>3. PICK renderers \in Nat : renderers = Cardinality(a.listed)
    BY <1>4
  <2>4. PICK warm \in Nat : warm = a.warm
    BY <1>3
  <2>5. PICK microvms \in Nat :
          microvms = IF Setup[h].mode = "firecracker"
                     THEN a.warm + Cardinality(a.listed) + spawned ELSE 0
    BY <1>3, <1>4, <2>1
  <2> QED BY <1>3, <2>1, <2>2, <2>3, <2>4, <2>5
<1>7. PICK status : status = DeriveStatus(h, strain, active, renderers, microvms, warm)
  OBVIOUS
<1>8. status \in {"healthy", "no-admit"}
  BY <1>7 DEF DeriveStatus
<1>9. PICK r : r = [status |-> status, active |-> active, renderers |-> renderers,
                    microvms |-> microvms, warm |-> warm, strain |-> strain]
  OBVIOUS
<1>10. /\ r \in Report /\ r.status = status /\ r.active = active
       /\ r.renderers = renderers /\ r.microvms = microvms /\ r.warm = warm
       /\ r.strain = strain
  BY <1>6, <1>8, <1>9 DEF Report
<1>11. Honest(h, r)
  BY <1>6, <1>7, <1>10 DEF Honest
<1>12. mail' = mail \cup {[host |-> h, report |-> r]}
  BY <1>6, <1>7, <1>9
<1>13. \A m \in mail' : m \in mail \/ (m.host = h /\ m.report = r)
  BY <1>12
<1>14. \A m \in mail' : m.host \in Host /\ m.report \in Report /\ Honest(m.host, m.report)
  BY <1>10, <1>11, <1>13 DEF FInv, FleetTypeOK, AgentsInv
<1>15. \A m \in mail' : Honest(m.host, m.report)'
  BY <1>14 DEF Honest, DeriveStatus
<1>16. AgentsInv'
  BY <1>1, <1>15 DEF FInv, AgentsInv
<1> QED BY <1>1, <1>14, <1>16, AgentsKeep DEF FInv, FleetTypeOK

LEMMA MailKeeps ==
    ASSUME FInv, NEW m \in mail, HeartbeatArrives(m) \/ HeartbeatLost(m) PROVE FInv'
<1>1. /\ UNCHANGED <<agent, held, create>> /\ mail' = mail \ {m}
  BY DEF HeartbeatArrives, HeartbeatLost
<1>2. m.host \in Host /\ m.report \in Report /\ Honest(m.host, m.report)
  BY DEF FInv, FleetTypeOK, AgentsInv
<1>3. AgentsInv'
  <2>1. \A x \in mail : Honest(x.host, x.report)'
    BY DEF FInv, AgentsInv, Honest, DeriveStatus
  <2> QED BY <1>1, <2>1 DEF FInv, AgentsInv
<1>4. CASE UNCHANGED <<record, fresh>>
  <2>1. /\ agent' \in [Host -> [up : BOOLEAN, launching : SUBSET Creation,
                                listed : SUBSET Creation, warm : Nat]]
        /\ \A x \in mail' : x.host \in Host /\ x.report \in Report
    BY <1>1 DEF FInv, FleetTypeOK
  <2> QED BY <1>1, <1>3, <1>4, <2>1, AgentsKeep
<1>5. CASE /\ record' = [record EXCEPT ![m.host] = m.report]
           /\ fresh' = {c \in fresh : held[c].host # m.host}
  <2>1. /\ HoldsInv' /\ RecordsInv'
        /\ \A g \in Host : record'[g] # NoReport => record'[g] \in Report
    <3>1. PICK h \in Host : h = m.host
      BY <1>2
    <3>2. PICK r \in Report : r = m.report
      BY <1>2
    <3> QED BY <1>1, <1>2, <1>5, <3>1, <3>2, ReportsReplace
  <2>2. FleetTypeOK'
    BY <1>1, <1>5, <2>1 DEF FInv, FleetTypeOK
  <2> QED BY <1>3, <2>1, <2>2 DEF FInv
<1> QED BY <1>4, <1>5 DEF HeartbeatArrives, HeartbeatLost

\* A host that has room has it on its report, after all that is promised on it.
LEMMA RoomIsLeft ==
    ASSUME FInv, NEW h \in Host, record[h] # NoReport, Plain(h),
           NEW c \in Creation, HasRoom(h, c)
    PROVE  /\ WarmFor(h, c) > 0 => Cardinality(WarmOn(h)) + 1 <= record[h].warm
           /\ ~(WarmFor(h, c) > 0) =>
                /\ record[h].active + Cardinality(ColdOn(h)) + 1 <= Setup[h].sessions
                /\ Setup[h].mode = "firecracker"
                     => record[h].microvms + Cardinality(ColdOn(h)) + 1
                          <= Setup[h].microvms
<1>1. PICK n, w, k \in Nat :
             /\ n = Cardinality(On(h))
             /\ w = Cardinality({d \in On(h) : held[d].warm})
             /\ n - w = Cardinality({d \in On(h) : ~held[d].warm})
             /\ w <= n /\ k <= w /\ k <= record[h].warm
             /\ Setup[h].mode = "firecracker" => k \in {w, record[h].warm}
             /\ Effective(h).active = record[h].active + n
             /\ Effective(h).warm = record[h].warm - k
             /\ Setup[h].mode = "firecracker"
                  => Effective(h).microvms = record[h].microvms + n - k
  BY Promised
<1>2. PICK a, m, v \in Nat : /\ a = record[h].active /\ m = record[h].microvms
                             /\ v = record[h].warm
  BY Reports
<1>3. v <= Setup[h].pool
  BY <1>2, Reports DEF Honest
<1>4. Cardinality(WarmOn(h)) <= w /\ Cardinality(ColdOn(h)) <= n - w
  <2>1. /\ WarmOn(h) \subseteq {d \in On(h) : held[d].warm}
        /\ ColdOn(h) \subseteq {d \in On(h) : ~held[d].warm}
    BY FiniteHolds DEF WarmOn, ColdOn
  <2>2. /\ IsFiniteSet({d \in On(h) : held[d].warm})
        /\ IsFiniteSet({d \in On(h) : ~held[d].warm})
    <3>1. /\ {d \in On(h) : held[d].warm} \subseteq On(h)
          /\ {d \in On(h) : ~held[d].warm} \subseteq On(h)
      OBVIOUS
    <3> QED BY <3>1, FiniteHolds, FS_Subset
  <2> QED BY <1>1, <2>1, <2>2, FS_Subset
<1>5. Cardinality(WarmOn(h)) \in Nat /\ Cardinality(ColdOn(h)) \in Nat
  BY FiniteHolds
<1>6. WarmFor(h, c) > 0 => v - k > 0
  BY <1>1, <1>2 DEF WarmFor
<1>7. v - k > 0 => w < v
  BY <1>1, <1>2, <1>3, Setups DEF Plain
<1>8. ~(WarmFor(h, c) > 0) => /\ a + n < Setup[h].sessions
                              /\ Setup[h].mode = "firecracker" => (m + n) - k < Setup[h].microvms
  BY <1>1, <1>2 DEF HasRoom
<1> QED BY <1>1, <1>2, <1>4, <1>5, <1>6, <1>7, <1>8, Setups

LEMMA ReserveKeeps == ASSUME FInv, NEW c \in Creation, Reserve(c) PROVE FInv'
<1>1. PICK h \in Best(c) :
        held' = [held EXCEPT ![c] = [host |-> h, warm |-> WarmFor(h, c) > 0]]
  BY DEF Reserve
<1>2. /\ UNCHANGED <<agent, record, mail>>
      /\ create' = [create EXCEPT ![c] = "asking"]
      /\ fresh' = fresh \cup {c} /\ create[c] \in {"new", "waiting"}
  BY DEF Reserve
<1>3. h \in Host /\ record[h] # NoReport /\ HasRoom(h, c)
  BY DEF Best, Candidates, Eligible
<1>4. held[c] = NoHold /\ held[c].host = Unasked /\ c \notin Holding /\ c \notin fresh
  <2>1. held[c] = NoHold
    BY <1>2 DEF FInv, HoldsInv
  <2>2. NoHold.host = Unasked
    BY DEF NoHold
  <2>3. c \notin Holding
    BY <2>1, <2>2 DEF Holding
  <2> QED BY <2>1, <2>2, <2>3 DEF FInv, HoldsInv
<1>5. PICK b \in BOOLEAN : b = (WarmFor(h, c) > 0)
  <2>1. CASE WarmFor(h, c) > 0
    <3>1. TRUE = (WarmFor(h, c) > 0)
      BY <2>1, Zenon
    <3> QED BY <3>1, Zenon
  <2>2. CASE ~(WarmFor(h, c) > 0)
    <3>1. (WarmFor(h, c) > 0) <=> FALSE
      BY <2>2
    <3>2. FALSE = (WarmFor(h, c) > 0)
      BY <3>1
    <3> QED BY <3>2, Zenon
  <2> QED BY <2>1, <2>2
<1>6. /\ held' \in [Creation -> [host : Host \cup {Unasked}, warm : BOOLEAN]]
      /\ held'[c].host = h /\ held'[c].warm = b
      /\ \A d \in Creation : d # c => held'[d] = held[d]
  BY <1>1, <1>3, <1>5 DEF FInv, FleetTypeOK
<1>7. fresh \subseteq Creation /\ h # Unasked
  BY <1>3, Setups DEF FInv, FleetTypeOK
<1>8. FleetTypeOK'
  BY <1>2, <1>6, <1>7 DEF FInv, FleetTypeOK
<1>9. HoldsInv'
  <2>1. Holding' = Holding \cup {c}
    BY <1>6, <1>7 DEF Holding
  <2>2. IsFiniteSet(Holding')
    BY <2>1, FS_AddElement DEF FInv, HoldsInv
  <2>3. fresh' \subseteq Holding'
    BY <1>2, <2>1 DEF FInv, HoldsInv
  <2>4. \A d \in fresh' : record'[held'[d].host] # NoReport
    BY <1>2, <1>3, <1>6, <1>7 DEF FInv, HoldsInv
  <2>5. \A d \in Creation : create'[d] \in {"new", "waiting"} => held'[d] = NoHold
    BY <1>2, <1>6 DEF FInv, FleetTypeOK, HoldsInv
  <2> QED BY <2>2, <2>3, <2>4, <2>5 DEF HoldsInv
<1>10. AgentsInv'
  BY <1>2 DEF FInv, AgentsInv, Honest, DeriveStatus
<1>11. RecordsInv'
  <2>1. ASSUME NEW g \in Host, g # h, record[g] # NoReport PROVE Shared(g)'
    <3>1. WarmOn(g)' \subseteq WarmOn(g) /\ ColdOn(g)' \subseteq ColdOn(g)
      BY <1>2, <1>6, <1>7, <2>1 DEF WarmOn, ColdOn
    <3> QED BY <1>2, <2>1, <3>1, FewerFit
  <2>2. ASSUME Plain(h) PROVE Shared(h)'
    <3>1. /\ b => WarmOn(h)' = WarmOn(h) \cup {c} /\ ColdOn(h)' = ColdOn(h)
          /\ ~b => WarmOn(h)' = WarmOn(h) /\ ColdOn(h)' = ColdOn(h) \cup {c}
      BY <1>2, <1>4, <1>6, <1>7 DEF WarmOn, ColdOn
    <3>2. /\ c \notin WarmOn(h) /\ c \notin ColdOn(h)
      BY <1>4 DEF WarmOn, ColdOn
    <3>3. PICK p, q \in Nat : p = Cardinality(WarmOn(h)) /\ q = Cardinality(ColdOn(h))
      BY <1>3, FiniteHolds
    <3>4. /\ b => Cardinality(WarmOn(h)') = p + 1 /\ Cardinality(ColdOn(h)') = q
          /\ ~b => Cardinality(WarmOn(h)') = p /\ Cardinality(ColdOn(h)') = q + 1
      <4>1. IsFiniteSet(WarmOn(h)) /\ IsFiniteSet(ColdOn(h))
        BY <1>3, FiniteHolds
      <4>2. /\ Cardinality(WarmOn(h) \cup {c}) = p + 1
            /\ Cardinality(ColdOn(h) \cup {c}) = q + 1
        BY <3>2, <3>3, <4>1, FS_AddElement
      <4> QED BY <3>1, <3>3, <4>2
    <3>5. PICK a, m, v \in Nat : /\ a = record[h].active /\ m = record[h].microvms
                                 /\ v = record[h].warm
      BY <1>3, Reports
    <3>6. /\ b => p + 1 <= v
          /\ ~b => /\ a + q + 1 <= Setup[h].sessions
                   /\ Setup[h].mode = "firecracker" => m + q + 1 <= Setup[h].microvms
      BY <1>3, <1>5, <2>2, <3>3, <3>5, RoomIsLeft
    <3>7. /\ p <= v
          /\ ColdOn(h) # {} => /\ a + q <= Setup[h].sessions
                               /\ Setup[h].mode = "firecracker" => m + q <= Setup[h].microvms
      <4>1. Shared(h)
        BY <1>3, Reports
      <4> QED BY <2>2, <3>3, <3>5, <4>1 DEF Shared
    <3>8. /\ Cardinality(WarmOn(h)') <= v
          /\ ColdOn(h)' # {} =>
               /\ a + Cardinality(ColdOn(h)') <= Setup[h].sessions
               /\ Setup[h].mode = "firecracker"
                    => m + Cardinality(ColdOn(h)') <= Setup[h].microvms
      <4>1. CASE b
        BY <3>1, <3>4, <3>6, <3>7, <4>1
      <4>2. CASE ~b
        BY <3>1, <3>4, <3>6, <3>7, <4>2
      <4> QED BY <4>1, <4>2
    <3>9. record'[h] = record[h]
      BY <1>2
    <3> QED BY <3>5, <3>8, <3>9 DEF Shared
  <2>3. Shared(h)'
    BY <2>2 DEF Shared, Plain
  <2>4. \A g \in Host : record[g] # NoReport => Honest(g, record[g])'
    BY <1>2, Reports DEF Honest, DeriveStatus
  <2> QED BY <1>2, <2>1, <2>3, <2>4 DEF FInv, RecordsInv
<1> QED BY <1>8, <1>9, <1>10, <1>11 DEF FInv

LEMMA FInvNext == FInv /\ [FleetNext]_fleetVars => FInv'
<1> SUFFICES ASSUME FInv, [FleetNext]_fleetVars PROVE FInv'
  OBVIOUS
<1>1. ASSUME NEW c \in Creation, Reserve(c) PROVE FInv'
  BY <1>1, ReserveKeeps
<1>2. ASSUME NEW c \in Creation, NoHost(c) \/ Release(c) \/ HandlerDies(c) \/ HoldExpires(c)
      PROVE  FInv'
  BY <1>2, CreatesKeep
<1>3. ASSUME NEW c \in Creation, NEW h \in Host,
             \/ AgentAccepts(h, c) \/ AgentLists(h, c)
             \/ AgentGivesUp(h, c) \/ AgentEndsSession(h, c)
      PROVE  FInv'
  BY <1>3, SessionsKeep
<1>4. ASSUME NEW h \in Host, Refill(h) \/ AgentDies(h) PROVE FInv'
  BY <1>4, PoolsKeep
<1>5. ASSUME NEW h \in Host, Register(h) PROVE FInv'
  BY <1>5, RegisterKeeps
<1>6. ASSUME NEW h \in Host, Heartbeat(h) PROVE FInv'
  BY <1>6, HeartbeatKeeps
<1>7. ASSUME NEW m \in mail, HeartbeatArrives(m) \/ HeartbeatLost(m) PROVE FInv'
  BY <1>7, MailKeeps
<1>8. CASE UNCHANGED fleetVars
  <2>1. UNCHANGED <<agent, record, mail, held, create, fresh>>
    BY <1>8 DEF fleetVars
  <2>2. AgentsInv'
    BY <2>1 DEF FInv, AgentsInv, Honest, DeriveStatus
  <2>3. FleetTypeOK
    BY DEF FInv
  <2> QED BY <2>1, <2>2, <2>3, AgentsKeep DEF FleetTypeOK
<1> QED BY <1>1, <1>2, <1>3, <1>4, <1>5, <1>6, <1>7, <1>8 DEF FleetNext

LEMMA FleetStaysInvariant == FleetSpec => []FInv
BY FInvInit, FInvNext, PTL DEF FleetSpec

\* What the invariant says of a report is what is promised on it.
LEMMA SharedSuffices == FInv => ReportedRoomIsSharedOnce
<1> SUFFICES ASSUME FInv PROVE ReportedRoomIsSharedOnce
  OBVIOUS
<1>1. ASSUME NEW h \in Host, Plain(h), {c \in fresh : held[c].host = h} # {}
      PROVE  /\ Cardinality({c \in fresh : held[c].host = h}
                              \ {c \in {d \in fresh : held[d].host = h} : ~held[c].warm})
                  <= record[h].warm
             /\ Cardinality({c \in fresh : held[c].host = h})
                  <= Max({0, Setup[h].sessions - record[h].active}) + record[h].warm
             /\ Setup[h].mode = "firecracker"
                  /\ {c \in {d \in fresh : held[d].host = h} : ~held[c].warm} # {}
                  => record[h].microvms
                       + Cardinality({c \in {d \in fresh : held[d].host = h} : ~held[c].warm})
                       <= Setup[h].microvms
  <2>1. record[h] # NoReport
    BY <1>1 DEF FInv, HoldsInv
  <2>2. PICK F : F = {c \in fresh : held[c].host = h}
    OBVIOUS
  <2>3. PICK W : W = WarmOn(h)
    OBVIOUS
  <2>4. PICK C : C = ColdOn(h)
    OBVIOUS
  <2>5. /\ F = W \cup C /\ F \ C = W /\ W \cap C = {}
        /\ C = {c \in {d \in fresh : held[d].host = h} : ~held[c].warm}
    BY <2>2, <2>3, <2>4 DEF WarmOn, ColdOn
  <2>6. IsFiniteSet(W) /\ IsFiniteSet(C)
    BY <2>3, <2>4, FiniteHolds
  <2>7. PICK p, q \in Nat : p = Cardinality(W) /\ q = Cardinality(C)
    BY <2>6, FS_CardinalityType
  <2>8. Cardinality(F) = p + q
    <3>1. Cardinality(W \cup C) = Cardinality(W) + Cardinality(C) - Cardinality(W \cap C)
      BY <2>6, FS_Union
    <3>2. Cardinality(W \cap C) = 0
      BY <2>5, FS_EmptySet, Zenon
    <3> QED BY <2>5, <2>7, <3>1, <3>2
  <2>9. PICK a, m, v \in Nat : /\ a = record[h].active /\ m = record[h].microvms
                               /\ v = record[h].warm
    BY <2>1, Reports
  <2>10. /\ p <= v
         /\ C # {} => /\ a + q <= Setup[h].sessions
                      /\ Setup[h].mode = "firecracker" => m + q <= Setup[h].microvms
    <3>1. Shared(h)
      BY <2>1, Reports
    <3> QED BY <1>1, <2>3, <2>4, <2>7, <2>9, <3>1 DEF Shared
  <2>11. C = {} => q = 0
    BY <2>7, FS_EmptySet, Zenon
  <2>12. PICK x \in Int : x = Setup[h].sessions - a
    BY <2>9, Setups
  <2>13. PICK y \in Int : y = Max({0, x}) /\ y >= 0 /\ y >= x
    <3>1. 0 \in Int /\ x \in Int
      OBVIOUS
    <3>2. Max({0, x}) \in {0, x} /\ Max({0, x}) >= 0 /\ Max({0, x}) >= x
      BY <3>1, MaxTwo
    <3> QED BY <3>2
  <2>14. p + q <= y + v
    <3>1. CASE C = {}
      BY <2>7, <2>9, <2>10, <2>11, <2>13, <3>1
    <3>2. CASE C # {}
      BY <2>7, <2>9, <2>10, <2>12, <2>13, <3>2, Setups
    <3> QED BY <3>1, <3>2
  <2> QED BY <2>2, <2>5, <2>7, <2>8, <2>9, <2>10, <2>12, <2>13, <2>14
<1> QED BY <1>1 DEF ReportedRoomIsSharedOnce, Count, Plain

-------------------------------------------------------------------------------
\* Every record, report, reservation and create keeps its form.
THEOREM FleetTypesKept == FleetSpec => []FleetTypeOK
<1>1. FInv => FleetTypeOK
  BY DEF FInv
<1> QED BY <1>1, FleetStaysInvariant, PTL

\* The room one report of a host offers is promised once (scheduler.ts,
\* chooseHost, on the reservations #effectiveHosts adds to the record).
THEOREM RoomStaysSharedOnce == FleetSpec => []ReportedRoomIsSharedOnce
BY SharedSuffices, FleetStaysInvariant, PTL

\* A host the agent calls full (#deriveStatus) has no place the scheduler would
\* give, however old the report and whatever was promised on it since.
THEOREM FullHostsStayFull == FleetSpec => []ClosedHostsAreFull
BY ClosedHasNoRoom, FleetStaysInvariant, PTL

-------------------------------------------------------------------------------
(***************************************************************************)
(* PartnerScope. For any keys, stamps, limits and values: a session stays  *)
(* in the scope of the key that made it and out of those of other tenants' *)
(* keys.  What a key may end is decided when it does so, from a record     *)
(* that changes later only in its status; so what is inductive is that a   *)
(* record bears the stamps of its maker and of whoever ended it.  Who      *)
(* ended a session is kept by its number, hence numbers have to be proved  *)
(* unique.                                                                 *)
(***************************************************************************)
\* s bears everything that k stamps.
Bears(s, k) == \A f \in Stamp : StampOf[k][f] # Unset => s.stamps[f] = StampOf[k][f]

Numbered == /\ IsFiniteSet(made)
            /\ \A s \in made : s.n <= Cardinality(made)
            /\ \A s, t \in made : s.n = t.n => s = t
            /\ \A n \in 1..MaxMade : n > Cardinality(made) => enders[n] = {}

PInv == /\ PartnerTypeOK
        /\ Numbered
        /\ \A s \in made : s.maker # Unset => InScope(s, s.maker)
        /\ \A s \in made : \A k \in enders[s.n] : Bears(s, k)

-------------------------------------------------------------------------------
\* Of two keys that are apart a record bears at most the stamps of one.
LEMMA ApartKeysShareNothing ==
  ASSUME NEW s, NEW j, NEW k, Apart(j, k), Bears(s, k)
  PROVE  ~Bears(s, j)
  BY DEF Apart, Bears

LEMMA PInvSuffices == PInv => SessionsStayWithTheirKey
  <1> SUFFICES ASSUME PInv, NEW s \in made, s.maker # Unset
               PROVE  /\ s \in Visible(s.maker)
                      /\ \A k \in PKey : Apart(k, s.maker) =>
                           s \notin Visible(k) /\ k \notin enders[s.n]
    BY DEF SessionsStayWithTheirKey
  <1>1. InScope(s, s.maker)
    BY DEF PInv
  <1>2. ASSUME NEW k \in PKey, Apart(k, s.maker)
        PROVE  ~Bears(s, k)
    <2>1. Bears(s, s.maker)
      BY <1>1 DEF InScope, Bears
    <2> QED BY <1>2, <2>1, ApartKeysShareNothing
  <1>3. \A k : InScope(s, k) => Bears(s, k)
    BY DEF InScope, Bears
  <1>4. \A k \in enders[s.n] : Bears(s, k)
    BY DEF PInv
  <1> QED BY <1>1, <1>2, <1>3, <1>4 DEF Visible

\* What applyPartnerScopeToCreateRequest lets pass is, once stamped, in scope.
LEMMA MergedIsInScope ==
  ASSUME NEW k \in PKey, NEW stamps \in [Stamp -> Value \cup {Unset}],
         NEW place \in [Limit -> Value \cup {Unset}], Allowed(k, stamps, place),
         NEW s, s.stamps = Merged(k, stamps), s.place = place
  PROVE  InScope(s, k)
  BY DEF Allowed, Merged, InScope

-------------------------------------------------------------------------------
LEMMA PInvInit == PartnerInit => PInv
  <1> SUFFICES ASSUME PartnerInit PROVE PInv
    OBVIOUS
  <1>1. IsFiniteSet(made) /\ made = {}
    BY FS_EmptySet DEF PartnerInit
  <1>2. enders \in [1..MaxMade -> SUBSET PKey] /\ \A n \in 1..MaxMade : enders[n] = {}
    BY DEF PartnerInit
  <1> QED BY <1>1, <1>2 DEF PInv, PartnerTypeOK, Numbered

LEMMA MakePreserves ==
  ASSUME PInv, NEW maker \in PKey \cup {Unset},
         NEW stamps \in [Stamp -> Value \cup {Unset}],
         NEW place \in [Limit -> Value \cup {Unset}],
         Make(maker, stamps, place),
         maker # Unset => \A s : s.stamps = stamps /\ s.place = place => InScope(s, maker)
  PROVE  PInv'
  <1> DEFINE r == [n |-> Cardinality(made) + 1, maker |-> maker, stamps |-> stamps,
                   place |-> place, status |-> "running"]
  <1>1. MaxMade \in Nat
    BY PartnerAssumption
  <1>2. IsFiniteSet(made) /\ Cardinality(made) \in Nat
    BY FS_CardinalityType DEF PInv, Numbered
  <1>3. made' = made \cup {r} /\ enders' = enders /\ Cardinality(made) < MaxMade
    BY DEF Make
  <1>4. r \in Made
    BY <1>1, <1>2, <1>3 DEF Made
  <1>5. \A s \in made : s \in Made /\ s.n \in 1..MaxMade /\ s.n <= Cardinality(made)
    BY DEF PInv, PartnerTypeOK, Numbered, Made
  <1>6. r \notin made /\ \A s \in made : s.n # r.n
    BY <1>2, <1>5
  <1>7. IsFiniteSet(made') /\ Cardinality(made') = Cardinality(made) + 1
    BY <1>2, <1>3, <1>6, FS_AddElement
  <1>8. Numbered'
    <2>1. \A s \in made' : s.n <= Cardinality(made')
      BY <1>2, <1>3, <1>5, <1>7
    <2>2. \A s, t \in made' : s.n = t.n => s = t
      BY <1>3, <1>6 DEF PInv, Numbered
    <2>3. \A n \in 1..MaxMade : n > Cardinality(made') => enders'[n] = {}
      BY <1>1, <1>2, <1>3, <1>7 DEF PInv, Numbered
    <2> QED BY <1>7, <2>1, <2>2, <2>3 DEF Numbered
  <1>9. PartnerTypeOK'
    BY <1>3, <1>4 DEF PInv, PartnerTypeOK
  <1>10. \A s \in made' : s.maker # Unset => InScope(s, s.maker)
    <2>1. r.maker # Unset => InScope(r, r.maker)
      OBVIOUS
    <2> QED BY <1>3, <2>1 DEF PInv
  <1>11. \A s \in made' : \A k \in enders'[s.n] : Bears(s, k)
    <2>1. enders'[r.n] = {}
      BY <1>1, <1>2, <1>3 DEF PInv, Numbered
    <2> QED BY <1>3, <2>1 DEF PInv
  <1> QED BY <1>8, <1>9, <1>10, <1>11 DEF PInv, InScope

\* A session ends, whoever ended it; the record changes in its status alone.
LEMMA TerminatePreserves ==
  ASSUME PInv, NEW s \in made, Terminate1(s), NEW K \in SUBSET PKey,
         enders' = [enders EXCEPT ![s.n] = @ \cup K],
         \A k \in K : Bears(s, k)
  PROVE  PInv'
  <1> DEFINE r == [s EXCEPT !.status = "terminated"]
  <1>1. s \in Made /\ made \subseteq Made /\ enders \in [1..MaxMade -> SUBSET PKey]
    BY DEF PInv, PartnerTypeOK
  <1>2. r \in Made /\ r.n = s.n /\ r.maker = s.maker /\ r.stamps = s.stamps
        /\ r.place = s.place
    BY <1>1 DEF Made
  <1>3. made' = (made \ {s}) \cup {r}
    BY DEF Terminate1
  <1> HIDE DEF r
  <1>4. IsFiniteSet(made) /\ Cardinality(made) \in Nat
    BY FS_CardinalityType DEF PInv, Numbered
  <1>5. r \notin made \ {s}
    BY <1>2 DEF PInv, Numbered
  <1>6. IsFiniteSet(made') /\ Cardinality(made') = Cardinality(made)
    <2>1. IsFiniteSet(made \ {s}) /\ Cardinality(made \ {s}) = Cardinality(made) - 1
      BY <1>4, FS_RemoveElement
    <2>2. IsFiniteSet(made') /\ Cardinality(made') = Cardinality(made \ {s}) + 1
      BY <1>3, <1>5, <2>1, FS_AddElement
    <2> QED BY <1>4, <2>1, <2>2
  <1>7. s.n \in 1..MaxMade /\ s.n <= Cardinality(made)
    BY <1>1 DEF PInv, Numbered, Made
  <1>8. Numbered'
    <2>1. \A t \in made' : t.n <= Cardinality(made')
      BY <1>2, <1>3, <1>6, <1>7 DEF PInv, Numbered
    <2>2. \A t, u \in made' : t.n = u.n => t = u
      BY <1>2, <1>3 DEF PInv, Numbered
    <2>3. \A n \in 1..MaxMade : n > Cardinality(made') => enders'[n] = {}
      BY <1>1, <1>4, <1>6, <1>7, PartnerAssumption DEF PInv, Numbered
    <2> QED BY <1>6, <2>1, <2>2, <2>3 DEF Numbered
  <1>9. PartnerTypeOK'
    BY <1>1, <1>2, <1>3, <1>7 DEF PartnerTypeOK
  <1>10. \A t \in made' : t.maker # Unset => InScope(t, t.maker)
    BY <1>2, <1>3 DEF PInv, InScope
  <1>11. \A t \in made' : \A k \in enders'[t.n] : Bears(t, k)
    <2>1. \A k \in enders'[r.n] : Bears(r, k)
      BY <1>1, <1>2, <1>7 DEF PInv, Bears
    <2>2. \A t \in made \ {s} : t.n # s.n /\ t.n \in 1..MaxMade
      BY <1>1 DEF PInv, Numbered, Made
    <2>3. \A t \in made \ {s} : enders'[t.n] = enders[t.n]
      BY <1>1, <1>7, <2>2
    <2> QED BY <1>3, <2>1, <2>3 DEF PInv
  <1> QED BY <1>8, <1>9, <1>10, <1>11 DEF PInv, InScope

LEMMA PInvNext == PInv /\ [PartnerNext]_partnerVars => PInv'
  <1> SUFFICES ASSUME PInv, [PartnerNext]_partnerVars PROVE PInv'
    OBVIOUS
  <1>1. CASE OperatorCreates
    BY <1>1, MakePreserves DEF OperatorCreates
  <1>2. ASSUME NEW k \in PKey, PartnerCreates(k) PROVE PInv'
    <2>1. PICK stamps \in [Stamp -> Value \cup {Unset}],
               place \in [Limit -> Value \cup {Unset}] :
               Allowed(k, stamps, place) /\ Make(k, Merged(k, stamps), place)
      BY <1>2 DEF PartnerCreates
    <2>2. Merged(k, stamps) \in [Stamp -> Value \cup {Unset}]
      BY PartnerAssumption DEF Merged
    <2>3. \A s : s.stamps = Merged(k, stamps) /\ s.place = place => InScope(s, k)
      BY <2>1, MergedIsInScope
    <2> QED BY <2>1, <2>2, <2>3, MakePreserves
  <1>3. ASSUME NEW k \in PKey, NEW s \in made, PartnerDeletes(k, s) PROVE PInv'
    <2>1. Bears(s, k)
      BY <1>3 DEF PartnerDeletes, InScope, Bears
    <2>2. /\ Terminate1(s) /\ {k} \in SUBSET PKey
          /\ enders' = [enders EXCEPT ![s.n] = @ \cup {k}]
      BY <1>3 DEF PartnerDeletes
    <2> QED BY <2>1, <2>2, TerminatePreserves
  <1>4. ASSUME NEW s \in made, SessionEnds(s) PROVE PInv'
    <2>1. Terminate1(s) /\ enders' = enders
      BY <1>4 DEF SessionEnds
    <2>2. enders' = [enders EXCEPT ![s.n] = @ \cup {}]
      BY <2>1 DEF PInv, PartnerTypeOK
    <2>3. {} \in SUBSET PKey /\ \A k \in {} : Bears(s, k)
      OBVIOUS
    <2> QED BY <2>1, <2>2, <2>3, TerminatePreserves
  <1>5. CASE UNCHANGED partnerVars
    BY <1>5 DEF partnerVars, PInv, PartnerTypeOK, Numbered, InScope
  <1> QED BY <1>1, <1>2, <1>3, <1>4, <1>5 DEF PartnerNext

\* No more sessions are made than the bound says, and only keys end sessions of
\* partners (recorded by the routes of server.ts).
THEOREM PartnerTypesKept == PartnerSpec => []PartnerTypeOK
  <1>1. PInv => PartnerTypeOK
    BY DEF PInv
  <1> QED BY <1>1, PInvInit, PInvNext, PTL DEF PartnerSpec

\* Whatever requests, deletes and ends follow each other, under any set of
\* keys: what a key made stays in its scope, and keys of other tenants neither
\* see it nor have ended it (provider-auth.ts, the /v1 routes of server.ts).
THEOREM PartnersAreSeparate == PartnerSpec => []SessionsStayWithTheirKey
  <1>1. PartnerSpec => []PInv
    BY PInvInit, PInvNext, PTL DEF PartnerSpec
  <1> QED BY <1>1, PInvSuffices, PTL

===============================================================================
