---------------------------- MODULE Clients_proofs ----------------------------
(***************************************************************************)
(* Proofs about those that make use of sessions, for every value of the    *)
(* constants: the readers of a session and its log, and the density        *)
(* benchmark. Each section stands for itself.                              *)
(***************************************************************************)
EXTENDS SessionReads, DensityBench, ListLemmas

-------------------------------------------------------------------------------
(***************************************************************************)
(* The event log of SessionReads.  An event is written by a request that   *)
(* was told the agent took its activity, and that is then done: so no two  *)
(* events are of one request, however often its call was sent.             *)
(***************************************************************************)
Ask == [at : Places, activity : Reported \cup {Launching, "logs"}, sends : Nat]
Event == [by : Asker, activity : Reported \cup {Launching, "logs"}]

ReadInv ==
    /\ asks \in [Asker -> Ask]
    /\ trail \in Seq(Event)
    /\ \A i \in DOMAIN trail : trail[i] \in taken /\ asks[trail[i].by].at = "done"
    /\ \A i, j \in DOMAIN trail : trail[i].by = trail[j].by => i = j
    /\ \A q \in Asker : asks[q].at = "told" =>
         [by |-> q, activity |-> asks[q].activity] \in taken

LEMMA ReadInvInit == ReadInit => ReadInv
<1> SUFFICES ASSUME ReadInit PROVE ReadInv
  OBVIOUS
<1>1. Nothing \in Ask /\ Nothing.at = "none"
  BY DEF Nothing, Ask, Places
<1>2. asks = [q \in Asker |-> Nothing] /\ trail = <<>>
  BY DEF ReadInit
<1> QED BY <1>1, <1>2 DEF ReadInv

\* A step of a request that writes no event and is not done before it.
LEMMA RequestKeeps ==
  ASSUME ReadInv, NEW q \in Asker, NEW w \in Ask, asks' = [asks EXCEPT ![q] = w],
         asks[q].at # "done", UNCHANGED trail, taken \subseteq taken',
         w.at = "told" => [by |-> q, activity |-> w.activity] \in taken'
  PROVE  ReadInv'
<1>1. asks' \in [Asker -> Ask] /\ asks'[q] = w /\ \A p \in Asker : p # q => asks'[p] = asks[p]
  BY DEF ReadInv
<1>2. \A i \in DOMAIN trail : trail[i].by \in Asker /\ trail[i].by # q
  <2>1. \A i \in DOMAIN trail : trail[i] \in Event
    BY DEF ReadInv
  <2> QED BY <2>1 DEF ReadInv, Event
<1> QED BY <1>1, <1>2 DEF ReadInv

\* The event of a request that was told.
LEMMA EventKeeps == ASSUME ReadInv, NEW q \in Asker, WritesEvent(q) PROVE ReadInv'
<1> DEFINE e == [by |-> q, activity |-> asks[q].activity]
           n == Len(trail)
<1>1. /\ asks[q].at = "told" /\ trail' = Append(trail, e) /\ taken' = taken
      /\ asks' = [asks EXCEPT ![q].at = "done"]
  BY DEF WritesEvent, Goes
<1>2. /\ asks[q] \in Ask /\ e \in Event /\ e.by = q /\ e \in taken
  BY <1>1 DEF ReadInv, Ask, Event
<1>3. /\ asks' \in [Asker -> Ask] /\ asks'[q].at = "done"
      /\ \A p \in Asker : p # q => asks'[p] = asks[p]
  BY <1>1, <1>2 DEF ReadInv, Ask, Places
<1>4. \A i \in DOMAIN trail : /\ trail[i].by \in Asker /\ trail[i].by # q
                              /\ trail[i] \in taken /\ asks[trail[i].by].at = "done"
  <2>1. \A i \in DOMAIN trail : trail[i] \in Event
    BY DEF ReadInv
  <2> QED BY <1>1, <2>1 DEF ReadInv, Event
<1> HIDE DEF e
<1>5. /\ trail' \in Seq(Event) /\ n \in Nat /\ DOMAIN trail = 1..n
      /\ DOMAIN trail' = 1..(n + 1) /\ trail'[n + 1] = e
      /\ \A i \in 1..n : trail'[i] = trail[i]
  BY <1>1, <1>2 DEF ReadInv
<1> HIDE DEF n
<1>6. \A i \in 1..(n + 1) : i \in 1..n \/ i = n + 1
  BY <1>5
<1>7. \A i \in DOMAIN trail' : trail'[i] \in taken' /\ asks'[trail'[i].by].at = "done"
  BY <1>1, <1>2, <1>3, <1>4, <1>5, <1>6
<1>8. ASSUME NEW i \in DOMAIN trail', NEW j \in DOMAIN trail', trail'[i].by = trail'[j].by
      PROVE  i = j
  <2>1. \A a, b \in 1..n : trail[a].by = trail[b].by => a = b
    BY <1>5 DEF ReadInv
  <2>2. (i \in 1..n \/ i = n + 1) /\ (j \in 1..n \/ j = n + 1)
    BY <1>5, <1>6
  <2>3. CASE i \in 1..n /\ j \in 1..n
    BY <1>5, <1>8, <2>1, <2>3
  <2>4. CASE i \in 1..n /\ j = n + 1
    BY <1>2, <1>4, <1>5, <1>8, <2>4
  <2>5. CASE i = n + 1 /\ j \in 1..n
    BY <1>2, <1>4, <1>5, <1>8, <2>5
  <2> QED BY <2>2, <2>3, <2>4, <2>5
<1>9. \A p \in Asker : asks'[p].at = "told" =>
        [by |-> p, activity |-> asks'[p].activity] \in taken'
  BY <1>1, <1>3 DEF ReadInv
<1> QED BY <1>3, <1>5, <1>7, <1>8, <1>9 DEF ReadInv

LEMMA ReadInvNext == ReadInv /\ [ReadNext]_readVars => ReadInv'
<1> SUFFICES ASSUME ReadInv, [ReadNext]_readVars PROVE ReadInv'
  OBVIOUS
<1>1. CASE UNCHANGED <<asks, trail, taken>>
  BY <1>1 DEF ReadInv
<1>2. ASSUME NEW q \in Asker, NEW place \in Places \ {"told"}, Goes(q, place),
             UNCHANGED trail, taken \subseteq taken', asks[q].at # "done"
      PROVE  ReadInv'
  <2>1. PICK w \in Ask : w = [asks[q] EXCEPT !.at = place]
    BY DEF ReadInv, Ask
  <2>2. asks' = [asks EXCEPT ![q] = w] /\ w.at = place
    BY <1>2, <2>1 DEF Goes, ReadInv, Ask
  <2> QED BY <1>2, <2>2, RequestKeeps
<1>3. ASSUME NEW q \in Asker, NEW a \in Reported, AsksActivity(q, a) PROVE ReadInv'
  <2>1. asks[q].at = "none" /\ UNCHANGED <<trail, taken>>
    BY <1>3 DEF AsksActivity
  <2>2. CASE asks' = [asks EXCEPT ![q] = [at |-> "calling", activity |-> a, sends |-> 1]]
    <3>1. PICK w \in Ask : w = [at |-> "calling", activity |-> a, sends |-> 1]
      BY DEF Ask, Places
    <3> QED BY <2>1, <2>2, <3>1, RequestKeeps
  <2>3. CASE Goes(q, "409")
    BY <1>2, <2>1, <2>3 DEF Places
  <2> QED BY <1>3, <2>2, <2>3 DEF AsksActivity
<1>4. ASSUME NEW q \in Asker, AsksLogs(q) PROVE ReadInv'
  <2>1. asks[q].at = "none" /\ UNCHANGED <<trail, taken>>
    BY <1>4 DEF AsksLogs
  <2>2. CASE asks' = [asks EXCEPT ![q] = [at |-> "calling", activity |-> "logs", sends |-> 1]]
    <3>1. PICK w \in Ask : w = [at |-> "calling", activity |-> "logs", sends |-> 1]
      BY DEF Ask, Places
    <3> QED BY <2>1, <2>2, <3>1, RequestKeeps
  <2>3. CASE Goes(q, IF sessionRecord.logs THEN "recorded" ELSE "empty")
    BY <1>2, <2>1, <2>3 DEF Places
  <2> QED BY <1>4, <2>2, <2>3 DEF AsksLogs
<1>5. ASSUME NEW q \in Asker, Marked(q) PROVE ReadInv'
  <2>1. PICK w \in Ask : w = [asks[q] EXCEPT !.at = "told"]
    BY DEF ReadInv, Ask, Places
  <2>2. /\ asks' = [asks EXCEPT ![q] = w] /\ w.activity = asks[q].activity
        /\ asks[q].at = "calling" /\ UNCHANGED trail
        /\ taken' = taken \cup {[by |-> q, activity |-> asks[q].activity]}
    BY <1>5, <2>1 DEF Marked, Updating, MarkActivity, Goes, ReadInv, Ask
  <2> QED BY <2>2, RequestKeeps
<1>6. ASSUME NEW q \in Asker, Unheard(q) PROVE ReadInv'
  <2>1. asks[q].at = "calling" /\ UNCHANGED trail /\ taken \subseteq taken'
    BY <1>6 DEF Unheard, Updating, MarkActivity
  <2>2. CASE asks' = [asks EXCEPT ![q].sends = @ + 1]
    <3>1. PICK w \in Ask : w = [asks[q] EXCEPT !.sends = @ + 1]
      <4>1. asks[q] \in Ask
        BY DEF ReadInv
      <4>2. PICK s \in Nat : s = asks[q].sends + 1
        BY <4>1 DEF Ask
      <4>3. [asks[q] EXCEPT !.sends = s] \in Ask
        BY <4>1 DEF Ask
      <4> QED BY <4>2, <4>3
    <3>2. asks' = [asks EXCEPT ![q] = w] /\ w.at = "calling"
      BY <2>1, <2>2, <3>1 DEF ReadInv, Ask
    <3> QED BY <2>1, <3>2, RequestKeeps
  <2>3. CASE Goes(q, "502")
    BY <1>2, <2>1, <2>3 DEF Places
  <2> QED BY <1>6, <2>2, <2>3 DEF Unheard
<1>7. ASSUME NEW q \in Asker, Refused(q) \/ ReadsLive(q) \/ ReadsNothing(q) PROVE ReadInv'
  <2>1. /\ asks[q].at = "calling" /\ UNCHANGED <<trail, taken>>
        /\ Goes(q, "502") \/ Goes(q, "live") \/ Goes(q, "empty")
    BY <1>7 DEF Refused, ReadsLive, ReadsNothing, Updating, Reading
  <2> QED BY <1>2, <2>1 DEF Places
<1>8. CASE AgentEndsIt \/ RecordEnds \/ DeleteCommits
  BY <1>1, <1>8 DEF AgentEndsIt, RecordEnds, DeleteCommits
<1>9. CASE UNCHANGED readVars
  BY <1>1, <1>9 DEF readVars
<1> QED BY <1>3, <1>4, <1>5, <1>6, <1>7, <1>8, <1>9, EventKeeps DEF ReadNext

\* The event log tells no activity that the agent did not take, and none twice
\* (updateSessionActivityFromRequest), whatever ends the session meanwhile and
\* however often the call to the agent is sent.
THEOREM LoggedActivityIsTrue == ReadSpec => []LoggedActivityHappened
<1>1. ReadInv => LoggedActivityHappened
  BY DEF ReadInv, LoggedActivityHappened
<1> QED BY <1>1, ReadInvInit, ReadInvNext, PTL DEF ReadSpec

\* Every request keeps its place, and its call is sent no more often than the
\* client of the agent resends it (agentRequest, src/api/client.ts).
LEMMA ReadTypesInit == Resends \in Nat => (ReadInit => ReadTypeOK)
<1> SUFFICES ASSUME Resends \in Nat, ReadInit PROVE ReadTypeOK
  OBVIOUS
<1>1. DOMAIN asks = Asker /\ \A q \in Asker : asks[q] = Nothing
  BY DEF ReadInit
<1>2. sessionRecord \in Kept /\ runs \in BOOLEAN /\ active \in Reported \cup {Launching}
  BY DEF ReadInit, Kept
<1>3. {trail[i].by : i \in DOMAIN trail} \subseteq Asker /\ taken = {}
  BY DEF ReadInit
<1> QED BY <1>1, <1>2, <1>3 DEF ReadTypeOK, Nothing, Places

LEMMA ReadTypesNext ==
  ASSUME Resends \in Nat, ReadInv, ReadTypeOK, [ReadNext]_readVars, ReadInv'
  PROVE  ReadTypeOK'
<1> DEFINE Sound(w) == /\ w.at \in Places
                       /\ w.activity \in Reported \cup {Launching, "logs"}
                       /\ w.sends \in 0..(Resends + 1)
<1>0. asks \in [Asker -> Ask] /\ \A q \in Asker : Sound(asks[q])
  BY DEF ReadInv, ReadTypeOK
<1>1. {trail'[i].by : i \in DOMAIN trail'} \subseteq Asker
  <2>1. \A i \in DOMAIN trail' : trail'[i] \in Event
    BY DEF ReadInv
  <2> QED BY <2>1 DEF Event
<1>2. ASSUME NEW q \in Asker, NEW w, Sound(w), asks' = [asks EXCEPT ![q] = w]
      PROVE  DOMAIN asks' = Asker /\ \A p \in Asker : Sound(asks'[p])
  BY <1>0, <1>2
<1>3. ASSUME NEW q \in Asker, NEW place \in Places, Goes(q, place)
      PROVE  DOMAIN asks' = Asker /\ \A p \in Asker : Sound(asks'[p])
  <2>1. PICK w \in Ask : w = [asks[q] EXCEPT !.at = place]
    BY <1>0 DEF Ask
  <2>2. Sound(w)
    BY <1>0, <2>1 DEF Ask
  <2>3. asks' = [asks EXCEPT ![q] = w]
    BY <1>0, <1>3, <2>1 DEF Goes
  <2> QED BY <1>2, <2>2, <2>3
<1>4. ASSUME NEW q \in Asker, NEW a \in Reported \cup {"logs"},
             asks' = [asks EXCEPT ![q] = [at |-> "calling", activity |-> a, sends |-> 1]]
      PROVE  DOMAIN asks' = Asker /\ \A p \in Asker : Sound(asks'[p])
  <2>1. Sound([at |-> "calling", activity |-> a, sends |-> 1])
    BY DEF Places
  <2> HIDE DEF Sound
  <2> QED BY <1>2, <1>4, <2>1
<1>5. ASSUME NEW q \in Asker, asks[q].sends <= Resends, asks' = [asks EXCEPT ![q].sends = @ + 1]
      PROVE  DOMAIN asks' = Asker /\ \A p \in Asker : Sound(asks'[p])
  <2>1. PICK n \in 0..(Resends + 1) : n = asks[q].sends + 1
    BY <1>0, <1>5
  <2>2. [asks[q] EXCEPT !.sends = n] = [at |-> asks[q].at, activity |-> asks[q].activity, sends |-> n]
    BY <1>0 DEF Ask
  <2>3. asks' = [asks EXCEPT ![q] = [at |-> asks[q].at, activity |-> asks[q].activity, sends |-> n]]
    BY <1>0, <1>5, <2>1, <2>2
  <2>4. Sound([at |-> asks[q].at, activity |-> asks[q].activity, sends |-> n])
    BY <1>0
  <2> QED BY <1>2, <2>3, <2>4
<1>6. DOMAIN asks' = Asker /\ \A p \in Asker : Sound(asks'[p])
  <2> HIDE DEF Sound
  <2>1. CASE UNCHANGED asks
    BY <1>0, <2>1
  <2>2. ASSUME NEW q \in Asker, NEW a \in Reported, AsksActivity(q, a)
        PROVE  DOMAIN asks' = Asker /\ \A p \in Asker : Sound(asks'[p])
    BY <1>3, <1>4, <2>2 DEF AsksActivity, Places
  <2>3. ASSUME NEW q \in Asker, AsksLogs(q)
        PROVE  DOMAIN asks' = Asker /\ \A p \in Asker : Sound(asks'[p])
    BY <1>3, <1>4, <2>3 DEF AsksLogs, Places
  <2>4. ASSUME NEW q \in Asker, Unheard(q)
        PROVE  DOMAIN asks' = Asker /\ \A p \in Asker : Sound(asks'[p])
    BY <1>3, <1>5, <2>4 DEF Unheard, Places
  <2>5. ASSUME NEW q \in Asker,
               Marked(q) \/ Refused(q) \/ WritesEvent(q) \/ ReadsLive(q) \/ ReadsNothing(q)
        PROVE  DOMAIN asks' = Asker /\ \A p \in Asker : Sound(asks'[p])
    <3>1. \E place \in Places : Goes(q, place)
      BY <2>5 DEF Marked, Refused, WritesEvent, ReadsLive, ReadsNothing, Places
    <3> QED BY <1>3, <3>1
  <2> QED BY <2>1, <2>2, <2>3, <2>4, <2>5
          DEF ReadNext, AgentEndsIt, RecordEnds, DeleteCommits, readVars
<1>7. ASSUME NEW q \in Asker, Updating(q), MarkActivity(q)
      PROVE  /\ active' \in Reported \cup {Launching}
             /\ \A e \in taken' : e.by \in Asker /\ e.activity \in Reported
  BY <1>7 DEF Updating, MarkActivity, ReadTypeOK
<1>8. /\ active' \in Reported \cup {Launching}
      /\ \A e \in taken' : e.by \in Asker /\ e.activity \in Reported
  <2>1. CASE UNCHANGED <<active, taken>>
    BY <2>1 DEF ReadTypeOK
  <2>2. ASSUME NEW q \in Asker, Marked(q) \/ Unheard(q)
        PROVE  /\ active' \in Reported \cup {Launching}
               /\ \A e \in taken' : e.by \in Asker /\ e.activity \in Reported
    BY <1>7, <2>1, <2>2 DEF Marked, Unheard
  <2> QED BY <2>1, <2>2 DEF ReadNext, AgentEndsIt, RecordEnds, DeleteCommits, AsksActivity, AsksLogs,
                            Refused, WritesEvent, ReadsLive, ReadsNothing, readVars
<1>9. sessionRecord' \in Kept /\ runs' \in BOOLEAN
  <2>1. sessionRecord \in Kept /\ runs \in BOOLEAN
    BY DEF ReadTypeOK
  <2>2. CASE AgentEndsIt
    BY <2>1, <2>2 DEF AgentEndsIt
  <2>3. CASE RecordEnds
    <3>1. PICK logs \in {sessionRecord.logs, TRUE} :
             sessionRecord' = [status |-> "terminated", logs |-> logs]
      BY <2>3 DEF RecordEnds
    <3>2. logs \in BOOLEAN
      BY <2>1, <3>1 DEF Kept
    <3> QED BY <2>1, <2>3, <3>1, <3>2 DEF RecordEnds, Kept
  <2>4. CASE DeleteCommits
    <3>1. sessionRecord' = [sessionRecord EXCEPT !.status = "terminated"] /\ runs' = runs
      BY <2>4 DEF DeleteCommits
    <3>2. [sessionRecord EXCEPT !.status = "terminated"] \in Kept
      BY <2>1 DEF Kept
    <3> QED BY <2>1, <3>1, <3>2
  <2> QED BY <2>1, <2>2, <2>3, <2>4
          DEF ReadNext, AsksActivity, AsksLogs, Marked, Unheard, Refused, WritesEvent,
              ReadsLive, ReadsNothing, readVars
<1> QED BY <1>1, <1>6, <1>8, <1>9 DEF ReadTypeOK

\* A session's record, the requests about it and its event log keep their types,
\* whatever is resent, refused or lost on the way: no request is sent more often
\* than fetchWithTransientRetry does it (client.ts), and every event is of a
\* request that was made (updateSessionActivityFromRequest).
THEOREM ReadTypesKept == Resends \in Nat => (ReadSpec => []ReadTypeOK)
<1> SUFFICES ASSUME Resends \in Nat PROVE ReadSpec => []ReadTypeOK
  OBVIOUS
<1> DEFINE Both == ReadInv /\ ReadTypeOK
<1>1. ReadInit => Both
  BY ReadInvInit, ReadTypesInit
<1>2. Both /\ [ReadNext]_readVars => Both'
  BY ReadInvNext, ReadTypesNext
<1>3. Both => ReadTypeOK
  OBVIOUS
<1> QED BY <1>1, <1>2, <1>3, PTL DEF ReadSpec

-------------------------------------------------------------------------------
(***************************************************************************)
(* DensityBench: the barrier of a level.  A level that is lifted had as    *)
(* many exercises counted as it has sessions; each is counted once, when   *)
(* it has left its page or is over, and no session is made any more once   *)
(* one of the level is exercised.  So every session of a lifted level was  *)
(* counted.  Whoever waits for a gate is in its line once.                 *)
(***************************************************************************)
MadeOnes == {t \in Task : asked[t] \in {"made", "deleted", "kept"}}

Creates == {"start", "plane", "agent", "warmup", "creating"}

\* Levels whose creates are settled.
Past == {k \in DOMAIN Levels : k < level \/ (k = level /\ phase \notin Creates)}

Early == {"none", "queued", "connecting"}
OnPage == {"none", "page"}
Beyond == {"queued", "navigating", "pausing"}

BenchForms ==
    /\ level \in DOMAIN Levels
    /\ asked \in [Task -> {"no", "made", "refused", "deleted", "kept"}]
    /\ main \in [Task -> {"none", "queued", "connecting", "racing", "closing",
                          "over"}]
    /\ body \in [Task -> {"none", "page", "barrier", "queued", "navigating",
                          "pausing", "ended"}]
    /\ ready \in [DOMAIN Levels -> Nat]
    /\ marked \subseteq Task

LinesOK ==
    /\ line \in [Gate -> Seq(Task)]
    /\ \A g \in Gate : IsInjective(line[g])
    /\ \A t \in ToSet(line["connect"]) : main[t] = "queued"
    /\ \A t \in ToSet(line["navigation"]) : body[t] = "queued"

Counted ==
    /\ \A t \in marked : main[t] # "none" /\ (body[t] \notin OnPage \/ main[t] = "over")
    /\ \A k \in DOMAIN Levels : ready[k] = Cardinality({t \in marked : t[1] = k})
    /\ \A k \in lifted : k \in Past /\ \A t \in MadeOnes : t[1] = k => t \in marked

BenchInv ==
    /\ BenchForms /\ LinesOK /\ Counted
    /\ \A t \in Task : main[t] \in Early => body[t] = "none"
    /\ \A t \in Task : main[t] # "none" => t \in MadeOnes /\ t[1] \in Past
    /\ \A t \in Task : body[t] \in Beyond => t[1] \in lifted \cup timed

-------------------------------------------------------------------------------
LEMMA Tasks == ASSUME NEW t \in Task PROVE t[1] \in DOMAIN Levels
BY DEF Task

LEMMA LevelIsFinite ==
  ASSUME Levels \in Seq(Nat), NEW k \in DOMAIN Levels
  PROVE  IsFiniteSet({t \in Task : t[1] = k})
<1>1. Levels[k] \in Nat
  OBVIOUS
<1>2. IsFiniteSet({k}) /\ IsFiniteSet(1..Levels[k])
  <2>1. 1 \in Int /\ Levels[k] \in Int
    BY <1>1
  <2>2. IsFiniteSet(1..Levels[k])
    BY <2>1, FS_Interval
  <2> QED BY <2>2, FS_Singleton
<1>3. IsFiniteSet({k} \X (1..Levels[k]))
  BY <1>2, FS_Product
<1>4. {t \in Task : t[1] = k} \subseteq {k} \X (1..Levels[k])
  BY DEF Task
<1> QED BY <1>3, <1>4, FS_Subset

\* What acquire and release do to a line.
LEMMA AcquireLine ==
  ASSUME LinesOK, NEW g \in Gate, NEW t \in Task, t \notin ToSet(line[g]), Acquire(g, t)
  PROVE  /\ line' \in [Gate -> Seq(Task)]
         /\ \A h \in Gate : IsInjective(line'[h])
         /\ \A h \in Gate : h # g => line'[h] = line[h]
         /\ free[g] > 0 => line' = line
         /\ ToSet(line'[g]) \subseteq ToSet(line[g]) \cup {t}
<1>1. CASE free[g] > 0
  BY <1>1 DEF Acquire, LinesOK
<1>2. CASE ~(free[g] > 0)
  <2>1. line' = [line EXCEPT ![g] = Append(line[g], t)]
    BY <1>2 DEF Acquire
  <2>2. line[g] \in Seq(Task) /\ IsInjective(line[g])
    BY DEF LinesOK
  <2>3. /\ Append(line[g], t) \in Seq(Task)
        /\ ToSet(Append(line[g], t)) = ToSet(line[g]) \cup {t}
        /\ IsInjective(Append(line[g], t))
    BY <2>2, LongerList
  <2> QED BY <1>2, <2>1, <2>3 DEF LinesOK
<1> QED BY <1>1, <1>2

LEMMA ReleaseLine ==
  ASSUME LinesOK, NEW g \in Gate, Release(g)
  PROVE  /\ line' \in [Gate -> Seq(Task)]
         /\ \A h \in Gate : IsInjective(line'[h])
         /\ \A h \in Gate : h # g => line'[h] = line[h]
         /\ Heir(g) \subseteq ToSet(line[g])
         /\ ToSet(line'[g]) = ToSet(line[g]) \ Heir(g)
<1>1. line[g] \in Seq(Task) /\ IsInjective(line[g])
  BY DEF LinesOK
<1>2. CASE line[g] = <<>>
  <2>1. line' = line /\ Heir(g) = {}
    BY <1>2 DEF Release, Heir
  <2> QED BY <2>1 DEF LinesOK
<1>3. CASE line[g] # <<>>
  <2>1. line' = [line EXCEPT ![g] = Tail(line[g])] /\ Heir(g) = {Head(line[g])}
    BY <1>3 DEF Release, Heir
  <2>2. /\ Head(line[g]) = line[g][1]
        /\ Tail(line[g]) = SubSeq(line[g], 2, Len(line[g]))
    BY <1>1, <1>3
  <2>3. /\ line[g][1] \in ToSet(line[g])
        /\ Tail(line[g]) \in Seq(Task)
        /\ ToSet(Tail(line[g])) = ToSet(line[g]) \ {line[g][1]}
        /\ IsInjective(Tail(line[g]))
    <3>1. PICK q \in Seq(Task) : q = line[g] /\ IsInjective(q) /\ q # <<>>
      BY <1>1, <1>3
    <3>2. /\ q[1] \in ToSet(q)
          /\ SubSeq(q, 2, Len(q)) \in Seq(Task)
          /\ ToSet(SubSeq(q, 2, Len(q))) = ToSet(q) \ {q[1]}
          /\ IsInjective(SubSeq(q, 2, Len(q)))
      BY <3>1, RestOfList
    <3> QED BY <2>2, <3>1, <3>2, Zenon
  <2> QED BY <2>1, <2>2, <2>3 DEF LinesOK
<1> QED BY <1>2, <1>3

-------------------------------------------------------------------------------
\* Whoever is counted at the barrier is counted once.
LEMMA MarkCounts ==
  ASSUME Levels \in Seq(Nat), BenchInv, NEW t \in Task, main[t] # "none", Mark(t),
         UNCHANGED <<asked, phase, level>>
  PROVE  /\ marked' = marked \cup {t} /\ UNCHANGED timed /\ lifted \subseteq lifted'
         /\ ready' \in [DOMAIN Levels -> Nat]
         /\ \A k \in DOMAIN Levels : ready'[k] = Cardinality({s \in marked' : s[1] = k})
         /\ \A k \in lifted' : k \in Past' /\ \A s \in MadeOnes' : s[1] = k => s \in marked'
<1>1. Past' = Past /\ MadeOnes' = MadeOnes
  BY DEF Past, MadeOnes
<1>2. CASE t \in marked
  <2>1. UNCHANGED barrier /\ marked = marked \cup {t}
    BY <1>2 DEF Mark
  <2> QED BY <1>1, <2>1 DEF barrier, BenchInv, BenchForms, Counted
<1>3. CASE t \notin marked
  <2>1. PICK n \in DOMAIN Levels : n = t[1]
    BY Tasks
  <2>2. /\ marked' = marked \cup {t} /\ ready' = [ready EXCEPT ![n] = @ + 1]
        /\ lifted' = lifted \cup {j \in {n} : ready'[j] >= Cardinality(Made(j))}
        /\ UNCHANGED timed
    BY <1>3, <2>1 DEF Mark, Count
  <2>3. ready' \in [DOMAIN Levels -> Nat] /\ ready'[n] = ready[n] + 1
        /\ \A k \in DOMAIN Levels : k # n => ready'[k] = ready[k]
    BY <2>2 DEF BenchInv, BenchForms
  <2>4. \A k \in DOMAIN Levels : k # n => {s \in marked' : s[1] = k} = {s \in marked : s[1] = k}
    BY <2>1, <2>2
  <2>5. {s \in marked' : s[1] = n} = {s \in marked : s[1] = n} \cup {t}
    BY <2>1, <2>2
  <2>6. IsFiniteSet({s \in Task : s[1] = n})
    BY LevelIsFinite
  <2>7. IsFiniteSet({s \in marked : s[1] = n})
    <3>1. {s \in marked : s[1] = n} \subseteq {s \in Task : s[1] = n}
      BY DEF BenchInv, BenchForms
    <3> QED BY <2>6, <3>1, FS_Subset
  <2>8. Cardinality({s \in marked' : s[1] = n}) = Cardinality({s \in marked : s[1] = n}) + 1
    BY <1>3, <2>5, <2>7, FS_AddElement
  <2>9. \A k \in DOMAIN Levels : ready'[k] = Cardinality({s \in marked' : s[1] = k})
    BY <2>3, <2>4, <2>8 DEF BenchInv, Counted
  <2>10. t \in MadeOnes /\ n \in Past
    BY <2>1 DEF BenchInv
  <2>11. ASSUME ready'[n] >= Cardinality(Made(n))
         PROVE  \A s \in MadeOnes : s[1] = n => s \in marked'
    <3>1. Made(n) = {s \in MadeOnes : s[1] = n}
      BY DEF Made, At, MadeOnes
    <3>2. Made(n) \subseteq {s \in Task : s[1] = n}
      BY <3>1 DEF MadeOnes
    <3>3. IsFiniteSet(Made(n)) /\ Cardinality(Made(n)) \in Nat
      BY <2>6, <3>2, FS_Subset, FS_CardinalityType
    <3>4. {s \in marked' : s[1] = n} \subseteq Made(n)
      BY <2>2, <2>10, <3>1 DEF BenchInv, BenchForms, Counted
    <3>5. /\ Cardinality({s \in marked' : s[1] = n}) <= Cardinality(Made(n))
          /\ Cardinality(Made(n)) = Cardinality({s \in marked' : s[1] = n})
               => Made(n) = {s \in marked' : s[1] = n}
      BY <3>3, <3>4, FS_Subset
    <3>6. Made(n) = {s \in marked' : s[1] = n}
      BY <2>3, <2>9, <2>11, <3>3, <3>5
    <3> QED BY <3>1, <3>6
  <2>12. \A k \in lifted' : k \in Past /\ \A s \in MadeOnes : s[1] = k => s \in marked'
    BY <2>2, <2>10, <2>11 DEF BenchInv, Counted
  <2> QED BY <1>1, <2>2, <2>3, <2>9, <2>12
<1> QED BY <1>2, <1>3

\* The ladder goes on, creates and deletes are settled, or a barrier times out.
LEMMA OuterKeeps ==
  ASSUME BenchInv, UNCHANGED <<main, body, marked, ready, lifted, line>>,
         timed \subseteq timed', level' \in DOMAIN Levels,
         asked' \in [Task -> {"no", "made", "refused", "deleted", "kept"}],
         Past \subseteq Past',
         \A t \in Task : t[1] \in Past => (t \in MadeOnes' <=> t \in MadeOnes)
  PROVE  BenchInv'
<1>1. BenchForms' /\ LinesOK'
  BY DEF BenchInv, BenchForms, LinesOK
<1>2. Counted'
  <2>1. \A k \in lifted : \A t \in MadeOnes' : t[1] = k => t \in MadeOnes
    BY DEF BenchInv, Counted, MadeOnes
  <2> QED BY <2>1 DEF BenchInv, Counted
<1> QED BY <1>1, <1>2 DEF BenchInv

\* A step of an exercise.
LEMMA ExerciseKeeps ==
  ASSUME Levels \in Seq(Nat), BenchInv, UNCHANGED <<phase, level, asked>>,
         main' \in [Task -> {"none", "queued", "connecting", "racing", "closing", "over"}],
         body' \in [Task -> {"none", "page", "barrier", "queued", "navigating",
                             "pausing", "ended"}],
         LinesOK',
         \A t \in Task : /\ main[t] # "none" => main'[t] # "none"
                         /\ main[t] = "over" => main'[t] = "over"
                         /\ body[t] \notin OnPage => body'[t] \notin OnPage
                         /\ main[t] = "none" /\ main'[t] # "none"
                              => t \in MadeOnes /\ t[1] \in Past
                         /\ main'[t] \in Early => body'[t] = "none"
                         /\ body'[t] \in Beyond
                              => body[t] \in Beyond \/ t[1] \in lifted \cup timed,
         \/ UNCHANGED barrier
         \/ \E t \in Task : /\ Mark(t) /\ main[t] # "none"
                            /\ body'[t] \notin OnPage \/ main'[t] = "over"
  PROVE  BenchInv'
<1>1. Past' = Past /\ MadeOnes' = MadeOnes
  BY DEF Past, MadeOnes
<1>2. marked \subseteq Task
  BY DEF BenchInv, BenchForms
<1>3. CASE UNCHANGED barrier
  <2>1. UNCHANGED <<marked, ready, lifted, timed>>
    BY <1>3 DEF barrier
  <2>2. BenchForms'
    BY <2>1 DEF BenchInv, BenchForms
  <2>3. Counted'
    BY <1>1, <1>2, <2>1 DEF BenchInv, Counted
  <2> QED BY <1>1, <2>1, <2>2, <2>3 DEF BenchInv
<1>4. ASSUME NEW t \in Task, Mark(t), main[t] # "none",
             body'[t] \notin OnPage \/ main'[t] = "over"
      PROVE  BenchInv'
  <2>1. /\ marked' = marked \cup {t} /\ UNCHANGED timed /\ lifted \subseteq lifted'
        /\ ready' \in [DOMAIN Levels -> Nat]
        /\ \A k \in DOMAIN Levels : ready'[k] = Cardinality({s \in marked' : s[1] = k})
        /\ \A k \in lifted' : k \in Past' /\ \A s \in MadeOnes' : s[1] = k => s \in marked'
    BY <1>4, MarkCounts
  <2>2. BenchForms'
    BY <1>2, <2>1 DEF BenchInv, BenchForms
  <2>3. Counted'
    BY <1>2, <1>4, <2>1 DEF BenchInv, Counted
  <2> QED BY <1>1, <2>1, <2>2, <2>3 DEF BenchInv
<1> QED BY <1>3, <1>4

-------------------------------------------------------------------------------
LEMMA LadderKeeps ==
  ASSUME Levels \in Seq(Nat), BenchInv, LadderStep \/ BarrierTimesOut
  PROVE  BenchInv'
<1>1. UNCHANGED <<main, body, marked, ready, lifted, line, asked>> /\ timed \subseteq timed'
  BY DEF LadderStep, BarrierTimesOut, StartChildren, StartFails, WarmUp, Exercise, Exercised,
         Deleted, Settle, StopChildren, tasks, steps, barrier, gates, ladder, children
<1>2. level \in DOMAIN Levels /\ DOMAIN Levels = 1..Len(Levels) /\ Len(Levels) \in Nat
  BY DEF BenchInv, BenchForms
<1>3. /\ level' \in DOMAIN Levels
      /\ \/ level' = level /\ (phase \notin Creates => phase' \notin Creates)
         \/ level' = level + 1
  <2>1. CASE Settle
    BY <1>2, <2>1 DEF Settle, GoesTo, Throw, Creates
  <2>2. CASE StartChildren \/ StartFails \/ WarmUp \/ Exercise \/ Exercised \/ Deleted \/ StopChildren
             \/ BarrierTimesOut
    BY <1>2, <2>2 DEF StartChildren, StartFails, WarmUp, Exercise, Exercised, Deleted, StopChildren,
                      BarrierTimesOut, GoesTo, Throw, Creates, ladder
  <2> QED BY <2>1, <2>2 DEF LadderStep
<1>4. Past \subseteq Past'
  BY <1>2, <1>3 DEF Past
<1>5. MadeOnes' = MadeOnes
  BY <1>1 DEF MadeOnes
<1>6. asked' \in [Task -> {"no", "made", "refused", "deleted", "kept"}]
  BY <1>1 DEF BenchInv, BenchForms
<1> QED BY <1>1, <1>3, <1>4, <1>5, <1>6, OuterKeeps

LEMMA SessionsKeep ==
  ASSUME Levels \in Seq(Nat), BenchInv, NEW t \in Task, CreateSession(t) \/ Delete(t) PROVE BenchInv'
<1>1. UNCHANGED <<main, body, marked, ready, lifted, timed, line, phase, level>>
  BY DEF CreateSession, Delete, steps, barrier, gates, ladder, children
<1>2. PICK how \in {"made", "refused", "deleted", "kept"} : asked' = [asked EXCEPT ![t] = how]
  BY DEF CreateSession, Delete
<1>3. asked' \in [Task -> {"no", "made", "refused", "deleted", "kept"}]
  BY <1>2 DEF BenchInv, BenchForms
<1>4. \A s \in Task : s[1] \in Past => (s \in MadeOnes' <=> s \in MadeOnes)
  <2>1. \A s \in Task : s # t => asked'[s] = asked[s]
    BY <1>2 DEF BenchInv, BenchForms
  <2>2. CASE CreateSession(t)
    <3>1. t[1] = level /\ phase \in Creates
      BY <2>2 DEF CreateSession, At, Creates
    <3>2. t[1] \notin Past
      <4>1. DOMAIN Levels = 1..Len(Levels) /\ Len(Levels) \in Nat /\ level \in DOMAIN Levels
        BY DEF BenchInv, BenchForms
      <4>2. ~(level < level)
        BY <4>1
      <4> QED BY <3>1, <4>2 DEF Past
    <3> QED BY <2>1, <3>2 DEF MadeOnes
  <2>3. CASE Delete(t)
    <3>1. asked[t] = "made" /\ asked'[t] \in {"deleted", "kept"}
      BY <2>3 DEF Delete, BenchInv, BenchForms
    <3> QED BY <2>1, <3>1 DEF MadeOnes
  <2> QED BY <2>2, <2>3
<1>5. Past' = Past
  BY <1>1 DEF Past
<1>6. level \in DOMAIN Levels
  BY DEF BenchInv, BenchForms
<1> QED BY <1>1, <1>3, <1>4, <1>5, <1>6, OuterKeeps

\* acquire and release of the gate for connections.
LEMMA ConnectsKeep ==
  ASSUME Levels \in Seq(Nat), BenchInv, NEW t \in Task,
         Begin(t) \/ Connected(t) \/ ConnectFails(t)
  PROVE  BenchInv'
<1>0. /\ main \in [Task -> {"none", "queued", "connecting", "racing", "closing", "over"}]
      /\ body \in [Task -> {"none", "page", "barrier", "queued", "navigating",
                            "pausing", "ended"}]
      /\ UNCHANGED <<phase, level, asked>>
      /\ "connect" \in Gate /\ "navigation" \in Gate /\ "connect" # "navigation"
      /\ \A g \in Gate : g \in {"connect", "navigation"}
      /\ \A s \in ToSet(line["connect"]) : main[s] = "queued"
      /\ \A s \in ToSet(line["navigation"]) : body[s] = "queued"
      /\ \A s \in Task : main[s] \in Early => body[s] = "none"
      /\ LinesOK
  BY DEF BenchInv, BenchForms, LinesOK, Gate, Begin, Connected, ConnectFails, outer, ladder
<1>1. CASE Begin(t)
  <2>1. /\ main[t] = "none" /\ Acquire("connect", t) /\ body' = body /\ UNCHANGED barrier
        /\ t \in MadeOnes /\ t[1] \in Past
    <3>1. phase = "exercising" /\ t[1] = level /\ t \in MadeOnes
      BY <1>1 DEF Begin, Made, At, MadeOnes
    <3>2. t[1] \in Past
      BY <3>1, Tasks DEF Past, Creates
    <3> QED BY <1>1, <3>1, <3>2 DEF Begin
  <2>2. main' = [main EXCEPT ![t] = IF free["connect"] > 0 THEN "connecting" ELSE "queued"]
    BY <1>1 DEF Begin
  <2>3. /\ main' \in [Task -> {"none", "queued", "connecting", "racing", "closing", "over"}]
        /\ main'[t] = IF free["connect"] > 0 THEN "connecting" ELSE "queued"
        /\ \A s \in Task : s # t => main'[s] = main[s]
    BY <1>0, <2>2
  <2>4. t \notin ToSet(line["connect"])
    BY <1>0, <2>1
  <2>5. /\ line' \in [Gate -> Seq(Task)]
        /\ \A h \in Gate : IsInjective(line'[h])
        /\ line'["navigation"] = line["navigation"]
        /\ free["connect"] > 0 => line' = line
        /\ ToSet(line'["connect"]) \subseteq ToSet(line["connect"]) \cup {t}
    BY <1>0, <2>1, <2>4, AcquireLine
  <2>6. \A h \in Gate : \A s \in ToSet(line'[h]) : s \in Task
    BY <2>5 DEF ToSet
  <2>7. LinesOK'
    BY <1>0, <2>1, <2>3, <2>4, <2>5, <2>6 DEF LinesOK
  <2> QED BY <1>0, <2>1, <2>3, <2>7, ExerciseKeeps DEF Early, OnPage, Beyond
<1>2. ASSUME NEW where \in {"racing", "over"}, main[t] = "connecting", Hands(t, where),
             NEW b \in {"none", "page"}, body' = [body EXCEPT ![t] = b],
             b = "none" \/ where = "racing",
             \/ UNCHANGED barrier
             \/ Mark(t) /\ where = "over"
      PROVE  BenchInv'
  <2>1. /\ line' \in [Gate -> Seq(Task)]
        /\ \A h \in Gate : IsInjective(line'[h])
        /\ line'["navigation"] = line["navigation"]
        /\ Heir("connect") \subseteq ToSet(line["connect"])
        /\ ToSet(line'["connect"]) = ToSet(line["connect"]) \ Heir("connect")
    BY <1>0, <1>2, ReleaseLine DEF Hands
  <2>2. \A h \in Gate : \A s \in ToSet(line[h]) : s \in Task
    BY <1>0 DEF LinesOK, ToSet
  <2>3. main' = [x \in Task |-> IF x = t THEN where
                                ELSE IF x \in Heir("connect") THEN "connecting"
                                ELSE main[x]]
    BY <1>2 DEF Hands
  <2>4. /\ main' \in [Task -> {"none", "queued", "connecting", "racing", "closing", "over"}]
        /\ main'[t] = where
        /\ \A s \in Task : s # t => \/ main'[s] = main[s] /\ s \notin Heir("connect")
                                    \/ /\ main'[s] = "connecting" /\ main[s] = "queued"
                                       /\ s \in Heir("connect")
    BY <1>0, <2>1, <2>2, <2>3
  <2>5. /\ body' \in [Task -> {"none", "page", "barrier", "queued", "navigating",
                               "pausing", "ended"}]
        /\ body'[t] = b /\ body[t] = "none" /\ \A s \in Task : s # t => body'[s] = body[s]
    BY <1>0, <1>2 DEF Early
  <2>6. LinesOK'
    <3>1. \A s \in ToSet(line'["connect"]) : main'[s] = "queued"
      BY <1>0, <1>2, <2>1, <2>2, <2>4
    <3>2. \A s \in ToSet(line'["navigation"]) : body'[s] = "queued"
      BY <1>0, <2>1, <2>2, <2>5
    <3> QED BY <2>1, <3>1, <3>2 DEF LinesOK
  <2>7. \A s \in Task : /\ main[s] # "none" => main'[s] # "none"
                        /\ main[s] = "over" => main'[s] = "over"
                        /\ body[s] \notin OnPage => body'[s] \notin OnPage
                        /\ ~(main[s] = "none" /\ main'[s] # "none")
                        /\ main'[s] \in Early => body'[s] = "none"
                        /\ body'[s] \in Beyond => body[s] \in Beyond
    BY <1>0, <1>2, <2>4, <2>5 DEF Early, OnPage, Beyond
  <2>8. main[t] # "none" /\ (where = "over" => main'[t] = "over")
    BY <1>2, <2>4
  <2> QED BY <1>0, <1>2, <2>4, <2>5, <2>6, <2>7, <2>8, ExerciseKeeps
<1>3. CASE Connected(t)
  BY <1>2, <1>3 DEF Connected
<1>4. CASE ConnectFails(t)
  <2>1. body' = [body EXCEPT ![t] = "none"]
    <3>1. body' = body /\ body[t] = "none"
      BY <1>0, <1>4 DEF ConnectFails, Early
    <3> QED BY <1>0, <3>1
  <2> QED BY <1>2, <1>4, <2>1 DEF ConnectFails
<1> QED BY <1>1, <1>3, <1>4

\* Steps of an exercise and its body that leave the gates alone.
LEMMA AloneKeeps ==
  ASSUME Levels \in Seq(Nat), BenchInv, NEW t \in Task,
         ActionTimesOut(t) \/ Close(t) \/ PageOpens(t) \/ PageFails(t) \/ Soaked(t)
  PROVE  BenchInv'
<1>0. /\ main \in [Task -> {"none", "queued", "connecting", "racing", "closing", "over"}]
      /\ body \in [Task -> {"none", "page", "barrier", "queued", "navigating",
                            "pausing", "ended"}]
      /\ UNCHANGED <<phase, level, asked, line>>
      /\ \A s \in ToSet(line["connect"]) : main[s] = "queued"
      /\ \A s \in ToSet(line["navigation"]) : body[s] = "queued"
      /\ \A s \in Task : main[s] \in Early => body[s] = "none"
      /\ LinesOK
  BY DEF BenchInv, BenchForms, LinesOK, ActionTimesOut, Close, PageOpens, PageFails,
         Soaked, outer, ladder, gates
<1>1. PICK m, b : /\ main' = [main EXCEPT ![t] = m] /\ body' = [body EXCEPT ![t] = b]
                  /\ \/ m = main[t]
                     \/ main[t] \in {"racing", "closing"} /\ m \in {"closing", "over"}
                  /\ \/ b = body[t]
                     \/ body[t] \in {"page", "pausing"} /\ b \in {"barrier", "ended"}
                  /\ \/ UNCHANGED barrier
                     \/ Mark(t) /\ main[t] # "none" /\ (b \notin OnPage \/ m = "over")
  <2>1. main' = [main EXCEPT ![t] = main'[t]] /\ body' = [body EXCEPT ![t] = body'[t]]
    BY <1>0 DEF ActionTimesOut, Close, PageOpens, PageFails, Soaked, Race
  <2>2. main[t] \in Early => body[t] = "none"
    BY <1>0
  <2>3. \/ main'[t] = main[t]
        \/ main[t] \in {"racing", "closing"} /\ main'[t] \in {"closing", "over"}
    BY <1>0 DEF ActionTimesOut, Close, PageOpens, PageFails, Soaked, Race
  <2>4. \/ body'[t] = body[t]
        \/ body[t] \in {"page", "pausing"} /\ body'[t] \in {"barrier", "ended"}
    BY <1>0 DEF ActionTimesOut, Close, PageOpens, PageFails, Soaked
  <2>5. \/ UNCHANGED barrier
        \/ Mark(t) /\ main[t] # "none" /\ (body'[t] \notin OnPage \/ main'[t] = "over")
    BY <1>0, <2>2 DEF ActionTimesOut, Close, PageOpens, PageFails, Soaked, Early, OnPage
  <2> QED BY <2>1, <2>3, <2>4, <2>5
<1>2. /\ main' \in [Task -> {"none", "queued", "connecting", "racing", "closing", "over"}]
      /\ body' \in [Task -> {"none", "page", "barrier", "queued", "navigating",
                             "pausing", "ended"}]
      /\ main'[t] = m /\ body'[t] = b
      /\ \A s \in Task : s # t => main'[s] = main[s] /\ body'[s] = body[s]
  BY <1>0, <1>1
<1>3. \A h \in Gate : \A s \in ToSet(line[h]) : s \in Task
  BY <1>0 DEF LinesOK, ToSet
<1>4. LinesOK'
  <2>1. \A s \in ToSet(line["connect"]) : main'[s] = "queued"
    BY <1>0, <1>1, <1>2, <1>3 DEF Gate
  <2>2. \A s \in ToSet(line["navigation"]) : body'[s] = "queued"
    BY <1>0, <1>1, <1>2, <1>3 DEF Gate
  <2> QED BY <1>0, <2>1, <2>2 DEF LinesOK
<1>5. \A s \in Task : /\ main[s] # "none" => main'[s] # "none"
                      /\ main[s] = "over" => main'[s] = "over"
                      /\ body[s] \notin OnPage => body'[s] \notin OnPage
                      /\ ~(main[s] = "none" /\ main'[s] # "none")
                      /\ main'[s] \in Early => body'[s] = "none"
                      /\ body'[s] \in Beyond => body[s] \in Beyond
  BY <1>0, <1>1, <1>2 DEF Early, OnPage, Beyond
<1> QED BY <1>0, <1>1, <1>2, <1>4, <1>5, ExerciseKeeps

\* acquire and release of the gate for navigations.
LEMMA NavigationsKeep ==
  ASSUME Levels \in Seq(Nat), BenchInv, NEW t \in Task, Navigate(t) \/ Navigated(t)
  PROVE  BenchInv'
<1>0. /\ main \in [Task -> {"none", "queued", "connecting", "racing", "closing", "over"}]
      /\ body \in [Task -> {"none", "page", "barrier", "queued", "navigating",
                            "pausing", "ended"}]
      /\ UNCHANGED <<phase, level, asked>> /\ UNCHANGED barrier
      /\ "connect" \in Gate /\ "navigation" \in Gate /\ "connect" # "navigation"
      /\ \A s \in ToSet(line["connect"]) : main[s] = "queued"
      /\ \A s \in ToSet(line["navigation"]) : body[s] = "queued"
      /\ \A s \in Task : main[s] \in Early => body[s] = "none"
      /\ LinesOK
      /\ \A h \in Gate : \A s \in ToSet(line[h]) : s \in Task
  BY DEF BenchInv, BenchForms, LinesOK, Gate, Navigate, Navigated, outer, ladder, ToSet
<1>1. CASE Navigate(t)
  <2>1. /\ body[t] \in {"barrier", "pausing"} /\ Acquire("navigation", t) /\ main' = main
        /\ body[t] \in Beyond \/ t[1] \in lifted \cup timed
        /\ body' = [body EXCEPT ![t] = IF free["navigation"] > 0 THEN "navigating"
                                                                ELSE "queued"]
    BY <1>1 DEF Navigate, Beyond
  <2>2. /\ body' \in [Task -> {"none", "page", "barrier", "queued", "navigating",
                               "pausing", "ended"}]
        /\ body'[t] = IF free["navigation"] > 0 THEN "navigating" ELSE "queued"
        /\ \A s \in Task : s # t => body'[s] = body[s]
    BY <1>0, <2>1
  <2>3. t \notin ToSet(line["navigation"])
    BY <1>0, <2>1
  <2>4. /\ line' \in [Gate -> Seq(Task)]
        /\ \A h \in Gate : IsInjective(line'[h])
        /\ line'["connect"] = line["connect"]
        /\ free["navigation"] > 0 => line' = line
        /\ ToSet(line'["navigation"]) \subseteq ToSet(line["navigation"]) \cup {t}
    BY <1>0, <2>1, <2>3, AcquireLine
  <2>5. LinesOK'
    <3>1. \A s \in ToSet(line'["navigation"]) : body'[s] = "queued"
      BY <1>0, <2>2, <2>3, <2>4
    <3> QED BY <1>0, <2>1, <2>4, <3>1 DEF LinesOK
  <2>6. main[t] \notin Early
    BY <1>0, <2>1
  <2>7. \A s \in Task : /\ body[s] \notin OnPage => body'[s] \notin OnPage
                        /\ main'[s] \in Early => body'[s] = "none"
                        /\ body'[s] \in Beyond => body[s] \in Beyond \/ s[1] \in lifted \cup timed
    BY <1>0, <2>1, <2>2, <2>6 DEF OnPage
  <2> QED BY <1>0, <2>1, <2>2, <2>5, <2>7, ExerciseKeeps
<1>2. CASE Navigated(t)
  <2>1. /\ line' \in [Gate -> Seq(Task)]
        /\ \A h \in Gate : IsInjective(line'[h])
        /\ line'["connect"] = line["connect"]
        /\ Heir("navigation") \subseteq ToSet(line["navigation"])
        /\ ToSet(line'["navigation"]) = ToSet(line["navigation"]) \ Heir("navigation")
    BY <1>0, <1>2, ReleaseLine DEF Navigated
  <2>2. PICK b \in {"ended", "pausing"} :
          body' = [x \in Task |-> IF x = t THEN b
                                  ELSE IF x \in Heir("navigation") THEN "navigating"
                                  ELSE body[x]]
    BY <1>2 DEF Navigated
  <2>3. body[t] = "navigating"
    BY <1>2 DEF Navigated
  <2>4. /\ body' \in [Task -> {"none", "page", "barrier", "queued", "navigating",
                               "pausing", "ended"}]
        /\ body'[t] = b
        /\ \A s \in Task : s # t => \/ body'[s] = body[s] /\ s \notin Heir("navigation")
                                    \/ /\ body'[s] = "navigating" /\ body[s] = "queued"
                                       /\ s \in Heir("navigation")
    BY <1>0, <2>1, <2>2
  <2>5. main' = main \/ (main[t] = "racing" /\ main' = [main EXCEPT ![t] = "closing"])
    BY <1>2 DEF Navigated, Race
  <2>6. /\ main' \in [Task -> {"none", "queued", "connecting", "racing", "closing", "over"}]
        /\ main'[t] = main[t] \/ (main[t] = "racing" /\ main'[t] = "closing")
        /\ \A s \in Task : s # t => main'[s] = main[s]
    BY <1>0, <2>5
  <2>7. LinesOK'
    <3>1. \A s \in ToSet(line'["navigation"]) : body'[s] = "queued"
      BY <1>0, <2>1, <2>3, <2>4
    <3>2. \A s \in ToSet(line'["connect"]) : main'[s] = "queued"
      BY <1>0, <2>1, <2>6
    <3> QED BY <2>1, <3>1, <3>2 DEF LinesOK
  <2>8. \A s \in Task : /\ main[s] # "none" => main'[s] # "none"
                        /\ main[s] = "over" => main'[s] = "over"
                        /\ ~(main[s] = "none" /\ main'[s] # "none")
                        /\ main[s] \in Early <=> main'[s] \in Early
    BY <1>0, <2>6 DEF Early
  <2>9. \A s \in Task : /\ body[s] \notin OnPage => body'[s] \notin OnPage
                        /\ body'[s] \in Beyond => body[s] \in Beyond
                        /\ body[s] = "none" => body'[s] = "none"
    BY <2>3, <2>4 DEF OnPage, Beyond
  <2> QED BY <1>0, <2>4, <2>6, <2>7, <2>8, <2>9, ExerciseKeeps
<1> QED BY <1>1, <1>2

LEMMA BenchInvNext == ASSUME Levels \in Seq(Nat) PROVE BenchInv /\ [BenchNext]_benchVars => BenchInv'
<1> SUFFICES ASSUME BenchInv, [BenchNext]_benchVars PROVE BenchInv'
  OBVIOUS
<1>1. ASSUME NEW t \in Task, TaskStep(t) PROVE BenchInv'
  BY <1>1, SessionsKeep, ConnectsKeep, AloneKeeps, NavigationsKeep DEF TaskStep
<1>2. CASE UNCHANGED benchVars
  <2>1. UNCHANGED <<phase, level, asked, main, body, marked, ready, lifted, timed, line>>
    BY <1>2 DEF benchVars, ladder, barrier, gates, tasks, steps
  <2> QED BY <2>1 DEF BenchInv, BenchForms, LinesOK, Counted, Past, MadeOnes
<1> QED BY <1>1, <1>2, LadderKeeps DEF BenchNext

LEMMA BenchInvInit == ASSUME Levels \in Seq(Nat), Levels # <<>> PROVE BenchInit => BenchInv
<1> SUFFICES ASSUME BenchInit PROVE BenchInv
  OBVIOUS
<1>1. BenchForms
  BY DEF BenchInit, BenchForms
<1>2. line = [g \in Gate |-> <<>>] /\ \A t \in Task : main[t] = "none" /\ body[t] = "none"
  BY DEF BenchInit
<1>3. LinesOK
  BY <1>2 DEF LinesOK, Gate, IsInjective, ToSet
<1>4. Counted
  <2>1. marked = {} /\ lifted = {} /\ \A k \in DOMAIN Levels : ready[k] = 0
    BY DEF BenchInit
  <2>2. ASSUME NEW k \in DOMAIN Levels PROVE Cardinality({t \in marked : t[1] = k}) = 0
    <3>1. {t \in marked : t[1] = k} = {}
      BY <2>1
    <3> QED BY <3>1, FS_EmptySet, Zenon
  <2> QED BY <2>1, <2>2 DEF Counted
<1> QED BY <1>1, <1>2, <1>3, <1>4 DEF BenchInv, Beyond

\* For any levels, gates, threshold and rounds, and whatever fails or is given
\* up: the sessions of a level do not navigate before each of them has its page
\* or is over, unless the time of the barrier is (markReadyToNavigate).
THEOREM NavigationsDoStartTogether ==
  ASSUME Levels \in Seq(Nat), Levels # <<>>
  PROVE  BenchSpec => []NavigationsStartTogether
<1>1. BenchInv => NavigationsStartTogether
  <2> SUFFICES ASSUME BenchInv, NEW k \in DOMAIN Levels \ timed, NEW s \in At(k),
                      body[s] \in {"queued", "navigating", "pausing"}, NEW t \in Made(k)
               PROVE  body[t] \notin {"none", "page"} \/ main[t] = "over"
    BY DEF NavigationsStartTogether
  <2>1. s \in Task /\ s[1] = k /\ t \in MadeOnes /\ t[1] = k
    BY DEF At, Made, MadeOnes
  <2>2. k \in lifted
    BY <2>1 DEF BenchInv, Beyond
  <2> QED BY <2>1, <2>2 DEF BenchInv, Counted, OnPage
<1> QED BY <1>1, BenchInvInit, BenchInvNext, PTL DEF BenchSpec

-------------------------------------------------------------------------------
(***************************************************************************)
(* The bounds of the benchmark's counters: it gives up warming up after    *)
(* its tries, no body navigates more than its rounds, no more exercises    *)
(* are counted at a barrier than there are, and the gates never have fewer *)
(* than no places.  While a body is in the line of the gate it has a round *)
(* left, and whoever is given the place was in that line.                  *)
(***************************************************************************)
Warming == {"start", "plane", "agent", "warmup"}

BenchRest ==
    /\ phase \in Warming \cup {"creating", "exercising", "deleting", "settling",
                               "stopping", "over"}
    /\ thrown \in BOOLEAN /\ waits \in BOOLEAN
    /\ planeChild \in {"none", "up", "told"} /\ agentChild \in {"none", "up", "told"}
    /\ tries \in 0..Tries /\ (phase \in Warming => tries < Tries)
    /\ stable \in 0..Len(Levels)
    /\ alive \subseteq Task /\ soaked \subseteq Task /\ timed \subseteq DOMAIN Levels
    /\ result \in [Task -> {"none", "ok", "failed"}]
    /\ free \in [Gate -> Nat]

RoundsOK ==
    /\ rounds \in [Task -> 0..MaxRounds]
    /\ \A t \in Task : /\ body[t] \in {"none", "page", "barrier"} => rounds[t] = 0
                       /\ body[t] \in {"queued", "navigating"} => rounds[t] < MaxRounds

Sizes == /\ Levels \in Seq(Nat) /\ Levels # <<>>
         /\ Limit \in [Gate -> Nat]
         /\ MaxRounds \in Nat \ {0} /\ Tries \in Nat \ {0}

LEMMA BenchRestInit == ASSUME Sizes, BenchInit PROVE BenchRest /\ RoundsOK
<1>1. Len(Levels) \in Nat
  BY DEF Sizes
<1>2. MaxRounds \in Nat \ {0} /\ Tries \in Nat \ {0} /\ Limit \in [Gate -> Nat]
  BY DEF Sizes
<1>3. RoundsOK
  BY <1>2 DEF BenchInit, RoundsOK
<1>4. /\ 0 \in 0..Tries /\ 0 < Tries /\ 0 \in 0..Len(Levels)
      /\ result \in [Task -> {"none", "ok", "failed"}]
  BY <1>1, <1>2 DEF BenchInit
<1> QED BY <1>2, <1>3, <1>4 DEF BenchInit, BenchRest, Warming

LEMMA LadderRest ==
  ASSUME Sizes, BenchInv, BenchRest, RoundsOK, LadderStep \/ BarrierTimesOut
  PROVE  BenchRest' /\ RoundsOK'
<1>1. /\ UNCHANGED <<body, rounds, soaked, result, free, waits>>
      /\ alive' = alive \/ alive' = {}
      /\ timed' = timed \/ timed' = timed \cup {level}
  BY DEF LadderStep, BarrierTimesOut, StartChildren, StartFails, WarmUp, Exercise, Exercised,
         Deleted, Settle, StopChildren, tasks, steps, barrier, gates, ladder, children
<1>2. RoundsOK'
  BY <1>1 DEF RoundsOK
<1>3. level \in 1..Len(Levels) /\ Len(Levels) \in Nat /\ DOMAIN Levels = 1..Len(Levels)
  BY DEF BenchInv, BenchForms, Sizes
<1>4. /\ alive' \subseteq Task /\ soaked' \subseteq Task /\ timed' \subseteq DOMAIN Levels
      /\ result' \in [Task -> {"none", "ok", "failed"}] /\ free' \in [Gate -> Nat]
      /\ waits' \in BOOLEAN
  BY <1>1, <1>3 DEF BenchRest
<1>5. stable' \in 0..Len(Levels)
  <2>1. stable' = stable \/ stable' = level
    BY DEF LadderStep, BarrierTimesOut, StartChildren, StartFails, WarmUp, Exercise, Exercised,
           Deleted, Settle, StopChildren, ladder
  <2> QED BY <1>3, <2>1 DEF BenchRest
<1>6. planeChild' \in {"none", "up", "told"} /\ agentChild' \in {"none", "up", "told"}
  BY DEF LadderStep, BarrierTimesOut, StartChildren, StartFails, WarmUp, Exercise, Exercised,
         Deleted, Settle, StopChildren, StopAll, Told, children, BenchRest
<1>7. tries' \in 0..Tries /\ (phase' \in Warming => tries' < Tries)
  <2>1. CASE WarmUp
    <3>1. phase = "warmup" /\ tries \in 0..Tries /\ tries < Tries /\ Tries \in Nat \ {0}
      BY <2>1 DEF WarmUp, BenchRest, Warming, Sizes
    <3>2. tries + 1 \in 0..Tries /\ 0 \in 0..Tries
      BY <3>1
    <3> QED BY <2>1, <3>1, <3>2 DEF WarmUp, GoesTo, Throw, Warming
  <2>2. CASE StartChildren
    <3>1. phase \in Warming /\ tries' = tries
      BY <2>2 DEF StartChildren, Warming
    <3> QED BY <3>1 DEF BenchRest
  <2>3. CASE StartFails \/ Exercise \/ Exercised \/ Deleted \/ Settle \/ StopChildren
    <3>1. tries' = tries /\ phase' \notin Warming
      BY <2>3 DEF StartFails, Exercise, Exercised, Deleted, Settle, StopChildren, GoesTo, Throw,
                  Warming
    <3> QED BY <3>1 DEF BenchRest
  <2>4. CASE BarrierTimesOut
    BY <2>4 DEF BarrierTimesOut, ladder, BenchRest
  <2> QED BY <2>1, <2>2, <2>3, <2>4 DEF LadderStep
<1>8. /\ phase' \in Warming \cup {"creating", "exercising", "deleting", "settling",
                                  "stopping", "over"}
      /\ thrown' \in BOOLEAN
  BY DEF LadderStep, BarrierTimesOut, StartChildren, StartFails, WarmUp, Exercise, Exercised,
         Deleted, Settle, StopChildren, GoesTo, Throw, Warming, ladder, BenchRest
<1> QED BY <1>2, <1>4, <1>5, <1>6, <1>7, <1>8 DEF BenchRest

\* acquire and release change the number of free places by one.
LEMMA PlacesStay ==
  ASSUME NEW g \in Gate, free \in [Gate -> Nat], NEW t, Acquire(g, t) \/ Release(g)
  PROVE  free' \in [Gate -> Nat]
<1>1. CASE UNCHANGED free
  BY <1>1
<1>2. CASE free[g] > 0 /\ free' = [free EXCEPT ![g] = @ - 1]
  <2>1. free[g] - 1 \in Nat
    BY <1>2
  <2> QED BY <1>2, <2>1
<1>3. CASE free' = [free EXCEPT ![g] = @ + 1]
  BY <1>3
<1> QED BY <1>1, <1>2, <1>3 DEF Acquire, Release

LEMMA TaskRest ==
  ASSUME Sizes, BenchInv, BenchRest, RoundsOK, NEW t \in Task, TaskStep(t)
  PROVE  BenchRest'
<1>1. UNCHANGED <<phase, thrown, tries, stable, waits, planeChild, agentChild>>
  BY DEF TaskStep, CreateSession, Delete, Begin, Connected, ConnectFails, ActionTimesOut, Close,
         PageOpens, PageFails, Navigate, Navigated, Soaked, ladder, outer, children
<1>2. timed' = timed
  BY DEF TaskStep, CreateSession, Delete, Begin, Connected, ConnectFails, ActionTimesOut, Close,
         PageOpens, PageFails, Navigate, Navigated, Soaked, barrier, Mark, Count
<1>3. alive' \subseteq Task
  <2>1. alive' \in {alive, alive \cup {t}, alive \ {t}}
    BY DEF TaskStep, CreateSession, Delete, Begin, Connected, ConnectFails, ActionTimesOut, Close,
           PageOpens, PageFails, Navigate, Navigated, Soaked, outer
  <2> QED BY <2>1 DEF BenchRest
<1>4. soaked' \subseteq Task
  <2>1. soaked' \in {soaked, soaked \cup {t}}
    BY DEF TaskStep, CreateSession, Delete, Begin, Connected, ConnectFails, ActionTimesOut, Close,
           PageOpens, PageFails, Navigate, Navigated, Soaked, steps
  <2> QED BY <2>1 DEF BenchRest
<1>5. result' \in [Task -> {"none", "ok", "failed"}]
  <2>1. \/ result' = result
        \/ \E how \in {"ok", "failed"} : result' = [result EXCEPT ![t] = how]
    BY DEF TaskStep, CreateSession, Delete, Begin, Connected, ConnectFails, ActionTimesOut, Close,
           PageOpens, PageFails, Navigate, Navigated, Soaked, Race, steps
  <2> QED BY <2>1 DEF BenchRest
<1>6. free' \in [Gate -> Nat]
  <2>1. \/ UNCHANGED free
        \/ \E g \in Gate : Acquire(g, t) \/ Release(g)
    BY DEF TaskStep, CreateSession, Delete, Begin, Connected, ConnectFails, ActionTimesOut, Close,
           PageOpens, PageFails, Navigate, Navigated, Soaked, Hands, gates, Gate
  <2>2. free \in [Gate -> Nat]
    BY DEF BenchRest
  <2> QED BY <2>1, <2>2, PlacesStay
<1> QED BY <1>1, <1>2, <1>3, <1>4, <1>5, <1>6 DEF BenchRest

LEMMA TaskRounds ==
  ASSUME Sizes, BenchInv, RoundsOK, NEW t \in Task, TaskStep(t)
  PROVE  RoundsOK'
<1>0. /\ body \in [Task -> {"none", "page", "barrier", "queued", "navigating",
                            "pausing", "ended"}]
      /\ rounds \in [Task -> 0..MaxRounds] /\ MaxRounds \in Nat \ {0}
      /\ \A s \in Task : /\ body[s] \in {"none", "page", "barrier"} => rounds[s] = 0
                         /\ body[s] \in {"queued", "navigating"} => rounds[s] < MaxRounds
  BY DEF BenchInv, BenchForms, RoundsOK, Sizes
<1>1. CASE UNCHANGED <<body, rounds>>
  BY <1>1 DEF RoundsOK
<1>2. ASSUME NEW b, body' = [body EXCEPT ![t] = b], UNCHANGED rounds,
             b \in {"none", "page", "barrier"} => rounds[t] = 0,
             b \in {"queued", "navigating"} => rounds[t] < MaxRounds
      PROVE  RoundsOK'
  BY <1>0, <1>2 DEF RoundsOK
<1>3. CASE CreateSession(t) \/ Delete(t) \/ Begin(t) \/ ConnectFails(t) \/ ActionTimesOut(t)
           \/ Close(t)
  BY <1>1, <1>3 DEF CreateSession, Delete, Begin, ConnectFails, ActionTimesOut, Close, steps
<1>4. CASE Connected(t)
  <2>1. body[t] = "none"
    BY <1>4 DEF Connected, BenchInv, Early
  <2> QED BY <1>0, <1>2, <1>4, <2>1 DEF Connected
<1>5. CASE PageOpens(t) \/ PageFails(t) \/ Soaked(t)
  BY <1>0, <1>2, <1>5 DEF PageOpens, PageFails, Soaked
<1>6. CASE Navigate(t)
  <2>1. rounds[t] < MaxRounds
    BY <1>0, <1>6 DEF Navigate
  <2>2. PICK b \in {"navigating", "queued"} : body' = [body EXCEPT ![t] = b]
    BY <1>6 DEF Navigate
  <2>3. UNCHANGED rounds
    BY <1>6 DEF Navigate
  <2> QED BY <1>2, <2>1, <2>2, <2>3
<1>7. CASE Navigated(t)
  <2>1. /\ body[t] = "navigating" /\ rounds' = [rounds EXCEPT ![t] = @ + 1]
        /\ Release("navigation")
    BY <1>7 DEF Navigated
  <2>2. PICK b \in {"ended", "pausing"} :
          body' = [x \in Task |-> IF x = t THEN b
                                  ELSE IF x \in Heir("navigation") THEN "navigating"
                                  ELSE body[x]]
    BY <1>7 DEF Navigated
  <2>3. rounds[t] + 1 \in 0..MaxRounds
    BY <1>0, <2>1
  <2>4. /\ rounds' \in [Task -> 0..MaxRounds]
        /\ \A s \in Task : s # t => rounds'[s] = rounds[s]
    BY <1>0, <2>1, <2>3
  <2>5. \A s \in Heir("navigation") : body[s] = "queued"
    <3>1. "navigation" \in Gate /\ LinesOK
      BY DEF Gate, BenchInv
    <3>2. Heir("navigation") \subseteq ToSet(line["navigation"])
      BY <2>1, <3>1, ReleaseLine
    <3> QED BY <3>1, <3>2 DEF LinesOK
  <2>6. \A s \in Task : s # t => \/ body'[s] = body[s]
                                 \/ body'[s] = "navigating" /\ body[s] = "queued"
    BY <2>2, <2>5
  <2>7. body'[t] \in {"ended", "pausing"}
    BY <2>2
  <2> QED BY <1>0, <2>4, <2>6, <2>7 DEF RoundsOK
<1> QED BY <1>3, <1>4, <1>5, <1>6, <1>7 DEF TaskStep

LEMMA BenchFits == ASSUME Sizes, BenchInv, BenchRest, RoundsOK PROVE BenchTypeOK
<1>1. \A k \in DOMAIN Levels : ready[k] \in 0..Cardinality(Task)
  <2>1. IsFiniteSet(Task)
    <3> DEFINE S == {{k} \X (1..Levels[k]) : k \in DOMAIN Levels}
    <3>1. IsFiniteSet(DOMAIN Levels)
      <4>1. DOMAIN Levels = 1..Len(Levels) /\ 1 \in Int /\ Len(Levels) \in Int
        BY DEF Sizes
      <4> QED BY <4>1, FS_Interval
    <3>2. IsFiniteSet(S)
      <4> DEFINE f == [k \in DOMAIN Levels |-> {k} \X (1..Levels[k])]
      <4>1. f \in Surjection(DOMAIN Levels, S)
        BY DEF Surjection
      <4> QED BY <3>1, <4>1, FS_Surjection
    <3>3. ASSUME NEW k \in DOMAIN Levels PROVE IsFiniteSet({k} \X (1..Levels[k]))
      <4>1. Levels[k] \in Int /\ 1 \in Int
        BY DEF Sizes
      <4>2. IsFiniteSet(1..Levels[k]) /\ IsFiniteSet({k})
        BY <4>1, FS_Interval, FS_Singleton
      <4> QED BY <4>2, FS_Product
    <3>4. \A s \in S : IsFiniteSet(s)
      BY <3>3
    <3> HIDE DEF S
    <3>5. IsFiniteSet(UNION S)
      BY <3>2, <3>4, FS_UNION
    <3> QED BY <3>5 DEF Task, S
  <2>2. ASSUME NEW k \in DOMAIN Levels PROVE ready[k] \in 0..Cardinality(Task)
    <3>1. {t \in marked : t[1] = k} \subseteq Task
      BY DEF BenchInv, BenchForms
    <3>2. /\ Cardinality({t \in marked : t[1] = k}) <= Cardinality(Task)
          /\ Cardinality(Task) \in Nat
      BY <2>1, <3>1, FS_Subset, FS_CardinalityType
    <3>3. ready[k] = Cardinality({t \in marked : t[1] = k}) /\ ready[k] \in Nat
      BY DEF BenchInv, BenchForms, Counted
    <3> QED BY <3>2, <3>3
  <2> QED BY <2>2
<1>2. ready \in [DOMAIN Levels -> 0..Cardinality(Task)]
  BY <1>1 DEF BenchInv, BenchForms
<1>3. {alive, soaked, marked} \subseteq SUBSET Task
  BY DEF BenchRest, BenchInv, BenchForms
<1>4. {lifted, timed} \subseteq SUBSET DOMAIN Levels
  <2>1. lifted \subseteq DOMAIN Levels
    BY DEF BenchInv, Counted, Past
  <2> QED BY <2>1 DEF BenchRest
<1>5. {planeChild, agentChild} \subseteq {"none", "up", "told"} /\ tries \in 0..Tries
      /\ phase \in {"start", "plane", "agent", "warmup", "creating", "exercising",
                    "deleting", "settling", "stopping", "over"}
  BY DEF BenchRest, Warming
<1> QED BY <1>2, <1>3, <1>4, <1>5
        DEF BenchTypeOK, BenchInv, BenchForms, LinesOK, BenchRest, RoundsOK

\* For any levels, gates, rounds and tries, the benchmark's counters keep their
\* bounds: no body navigates once more than it may, and no exercise is counted
\* twice at its barrier (exerciseSession and AsyncSemaphore).
THEOREM BenchTypesKept ==
  ASSUME Sizes PROVE BenchSpec => []BenchTypeOK
<1> DEFINE All == BenchInv /\ BenchRest /\ RoundsOK
<1>1. BenchInit => All
  BY BenchInvInit, BenchRestInit DEF Sizes
<1>2. All /\ [BenchNext]_benchVars => All'
  <2> SUFFICES ASSUME All, [BenchNext]_benchVars PROVE BenchRest' /\ RoundsOK'
    BY BenchInvNext DEF Sizes
  <2>1. CASE UNCHANGED benchVars
    <3>1. UNCHANGED <<phase, thrown, tries, stable, waits, planeChild, agentChild, alive, soaked,
                      timed, result, free, rounds, body>>
      BY <2>1 DEF benchVars, ladder, children, barrier, gates, tasks, steps
    <3> QED BY <3>1 DEF BenchRest, RoundsOK
  <2>2. CASE LadderStep \/ BarrierTimesOut
    BY <2>2, LadderRest
  <2>3. ASSUME NEW t \in Task, TaskStep(t) PROVE BenchRest' /\ RoundsOK'
    BY <2>3, TaskRest, TaskRounds
  <2> QED BY <2>1, <2>2, <2>3 DEF BenchNext
<1>3. All => BenchTypeOK
  BY BenchFits
<1> QED BY <1>1, <1>2, <1>3, PTL DEF BenchSpec
===============================================================================
