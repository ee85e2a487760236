---------------------------- MODULE DensityBench ----------------------------
(***************************************************************************)
(* The density benchmark of one profile (src/bench/density.ts, with        *)
(* createSession, deleteSession and waitForAgentReady of                   *)
(* src/bench/lib/harness.ts): levels of more and more sessions that are    *)
(* created at the same time, exercised at the same time, and deleted.      *)
(* Semaphores bound how many connect and how many navigate; a barrier lets *)
(* the first navigations of a level start together; a time-out abandons an *)
(* exercise, whose body goes on by itself, through later levels if need    *)
(* be.  The sessions themselves are those of the control plane.            *)
(***************************************************************************)
EXTENDS Naturals, Sequences, FiniteSets

CONSTANTS Levels,     \* sessions asked for at each level
          Limit,      \* places of the gates "connect" and "navigation"
          Threshold,  \* successThreshold, in percent
          MaxRounds,  \* bound: navigations of a body
          Tries       \* attempts to warm up

Gate == {"connect", "navigation"}
Task == UNION {{k} \X (1..Levels[k]) : k \in DOMAIN Levels}

VARIABLES
    phase,   \* of the benchmark
    thrown,  \* it is stopped by an error
    planeChild, \* the control plane it starts: none, up, or told to stop
    agentChild, \* likewise the node agent
    tries,   \* attempts to warm up that have failed
    level,   \* the level under way
    stable,  \* maxStableConcurrencyForProfile, as the number of a level
    waits,   \* waitForAgentReady waits for an idle agent
    asked,   \* asked[t]: the outcome of the create
    alive,   \* sessions on the host
    main,    \* main[t]: how far exerciseSession is
    body,    \* body[t]: how far the function raced against the time-out is
    rounds,  \* rounds[t]: navigations the body has ended
    soaked,  \* tasks with a failed soak action
    result,  \* result[t]: of exerciseSession
    marked,  \* reachedNavigationBarrier of each task
    ready,   \* stagedReadyCount of each level
    lifted,  \* levels whose stagedNavigationStarted is resolved
    timed,   \* levels whose stagedNavigationTimeout is over
    free,    \* free[g]: #available of a gate
    line     \* line[g]: its #waiters

ladder == <<phase, thrown, tries, level, stable, waits>>
children == <<planeChild, agentChild>>
barrier == <<marked, ready, lifted, timed>>
gates == <<free, line>>
outer == <<ladder, children, asked, alive>>
steps == <<main, body, rounds, soaked, result>>
tasks == <<asked, alive, steps>>
benchVars == <<ladder, children, barrier, gates, tasks>>

BenchTypeOK ==
    /\ phase \in {"start", "plane", "agent", "warmup", "creating", "exercising",
                  "deleting", "settling", "stopping", "over"}
    /\ thrown \in BOOLEAN
    /\ {planeChild, agentChild} \subseteq {"none", "up", "told"}
    /\ tries \in 0..Tries
    /\ level \in DOMAIN Levels
    /\ stable \in 0..Len(Levels)
    /\ waits \in BOOLEAN
    /\ asked \in [Task -> {"no", "made", "refused", "deleted", "kept"}]
    /\ {alive, soaked, marked} \subseteq SUBSET Task
    /\ main \in [Task -> {"none", "queued", "connecting", "racing", "closing",
                          "over"}]
    /\ body \in [Task -> {"none", "page", "barrier", "queued", "navigating",
                          "pausing", "ended"}]
    /\ rounds \in [Task -> 0..MaxRounds]
    /\ result \in [Task -> {"none", "ok", "failed"}]
    /\ ready \in [DOMAIN Levels -> 0..Cardinality(Task)]
    /\ {lifted, timed} \subseteq SUBSET DOMAIN Levels
    /\ free \in [Gate -> Nat]
    /\ line \in [Gate -> Seq(Task)]

BenchInit ==
    /\ phase = "start"
    /\ thrown = FALSE
    /\ planeChild = "none"
    /\ agentChild = "none"
    /\ tries = 0
    /\ level = 1
    /\ stable = 0
    /\ waits \in BOOLEAN
    /\ asked = [t \in Task |-> "no"]
    /\ alive = {}
    /\ main = [t \in Task |-> "none"]
    /\ body = [t \in Task |-> "none"]
    /\ rounds = [t \in Task |-> 0]
    /\ soaked = {}
    /\ result = [t \in Task |-> "none"]
    /\ marked = {}
    /\ ready = [k \in DOMAIN Levels |-> 0]
    /\ lifted = {}
    /\ timed = {}
    /\ free = Limit
    /\ line = [g \in Gate |-> <<>>]

At(k) == {t \in Task : t[1] = k}
Made(k) == {t \in At(k) : asked[t] \in {"made", "deleted", "kept"}}

(***************************************************************************)
(* AsyncSemaphore                                                          *)
(***************************************************************************)
\* acquire: a place, or a place in the line.
Acquire(g, t) ==
    IF free[g] > 0 THEN free' = [free EXCEPT ![g] = @ - 1] /\ UNCHANGED line
                   ELSE UNCHANGED free /\ line' = [line EXCEPT ![g] = Append(@, t)]

\* release: the place goes to the head of the line, or is free.
Heir(g) == IF line[g] = <<>> THEN {} ELSE {Head(line[g])}

Release(g) ==
    IF line[g] = <<>> THEN free' = [free EXCEPT ![g] = @ + 1] /\ UNCHANGED line
                      ELSE UNCHANGED free /\ line' = [line EXCEPT ![g] = Tail(@)]

(***************************************************************************)
(* The ladder of levels                                                    *)
(***************************************************************************)
GoesTo(where) == phase' = where /\ UNCHANGED thrown
Throw == phase' = "stopping" /\ thrown' = TRUE

\* startProfileBenchmark: the control plane, and once it answers the agent; the
\* first to fail, or the host that never takes sessions, stops both.
StartChildren ==
    /\ \/ phase = "start" /\ planeChild' = "up" /\ GoesTo("plane") /\ UNCHANGED agentChild
       \/ phase = "plane" /\ agentChild' = "up" /\ GoesTo("agent") /\ UNCHANGED planeChild
       \/ phase = "agent" /\ GoesTo("warmup") /\ UNCHANGED children
    /\ UNCHANGED <<tries, level, stable, waits, tasks, barrier, gates>>

Told(p) == IF p = "up" THEN "told" ELSE p
StopAll == planeChild' = Told(planeChild) /\ agentChild' = Told(agentChild)

StartFails ==
    /\ phase \in {"plane", "agent"}
    /\ phase' = "over" /\ thrown' = TRUE
    /\ StopAll
    /\ UNCHANGED <<tries, level, stable, waits, tasks, barrier, gates>>

\* A session is warmed up, in at most three tries; a create that fails ends the
\* benchmark at once, as does an agent that does not become idle.  The gates are
\* not used.
WarmUp ==
    /\ phase = "warmup"
    /\ \/ GoesTo("creating") /\ tries' = 0
       \/ Throw /\ UNCHANGED tries
       \/ /\ tries' = tries + 1
          /\ IF tries' < Tries THEN UNCHANGED <<phase, thrown>> ELSE Throw
    /\ UNCHANGED <<children, level, stable, waits, tasks, barrier, gates>>

\* createSession: answered, or not; of a create that is given up after 60 s the
\* host may have a session nobody will delete.
CreateSession(t) ==
    /\ phase = "creating"
    /\ t \in At(level) /\ asked[t] = "no"
    /\ \/ asked' = [asked EXCEPT ![t] = "made"] /\ alive' = alive \cup {t}
       \/ /\ asked' = [asked EXCEPT ![t] = "refused"]
          /\ alive' \in {alive, alive \cup {t}}
    /\ UNCHANGED <<ladder, children, steps, barrier, gates>>

\* Every create is settled: the exercises start.
Exercise ==
    /\ phase = "creating"
    /\ \A t \in At(level) : asked[t] # "no"
    /\ GoesTo("exercising")
    /\ UNCHANGED <<children, tries, level, stable, waits, tasks, barrier,
                   gates>>

\* Every exercise is settled: the sessions are looked at and deleted.
Exercised ==
    /\ phase = "exercising"
    /\ \A t \in Made(level) : main[t] = "over"
    /\ GoesTo("deleting") \/ Throw
    /\ UNCHANGED <<children, tries, level, stable, waits, tasks, barrier,
                   gates>>

Delete(t) ==
    /\ phase = "deleting"
    /\ t \in At(level) /\ asked[t] = "made"
    /\ \/ asked' = [asked EXCEPT ![t] = "deleted"] /\ alive' = alive \ {t}
       \/ asked' = [asked EXCEPT ![t] = "kept"] /\ UNCHANGED alive
    /\ UNCHANGED <<ladder, children, steps, barrier, gates>>

Deleted ==
    /\ phase = "deleting"
    /\ \A t \in At(level) : asked[t] # "made"
    /\ GoesTo("settling")
    /\ UNCHANGED <<children, tries, level, stable, waits, tasks, barrier,
                   gates>>

Enough(S) == Cardinality(S) * 100 >= Threshold * Levels[level]
Passed == LET good == {t \in Made(level) : result[t] = "ok"}
          IN Enough(Made(level)) /\ Enough(good) /\ good \cap soaked = {}

\* waitForAgentReady, 60 s at most.
HostIdle == waits => alive = {}

\* The verdict, on a host that has become idle; the ladder ends with the first
\* level that is not passed.
Settle ==
    /\ phase = "settling"
    /\ IF ~HostIdle THEN Throw /\ UNCHANGED <<level, stable>>
       ELSE /\ stable' = IF Passed THEN level ELSE stable
            /\ IF Passed /\ level < Len(Levels)
               THEN GoesTo("creating") /\ level' = level + 1
               ELSE GoesTo("stopping") /\ UNCHANGED level
    /\ UNCHANGED <<children, tries, waits, tasks, barrier, gates>>

\* stopProfileBenchmark: SIGTERM, and 5 s for each; SIGKILL never follows, for a
\* child that was sent a signal is "killed".  The agent ends its sessions.
StopChildren ==
    /\ phase = "stopping"
    /\ phase' = "over"
    /\ StopAll
    /\ alive' \in {alive, {}}
    /\ UNCHANGED <<thrown, tries, level, stable, waits, asked, steps, barrier, gates>>

(***************************************************************************)
(* The barrier of a level                                                  *)
(***************************************************************************)
Count(t) == LET n == t[1]
            IN /\ marked' = marked \cup {t}
               /\ ready' = [ready EXCEPT ![n] = @ + 1]
               /\ lifted' = lifted \cup
                             {j \in {n} : ready'[j] >= Cardinality(Made(j))}

\* A fault: whoever fails at the barrier is counted a second time.
MarkAgain(t) == Count(t) /\ UNCHANGED timed

\* markReadyToNavigate
Mark(t) == IF t \in marked THEN UNCHANGED barrier ELSE Count(t) /\ UNCHANGED timed

\* stagedNavigationTimeout runs from the start of the exercises.
BarrierTimesOut ==
    /\ phase = "exercising"
    /\ timed' = timed \cup {level}
    /\ UNCHANGED <<ladder, children, tasks, marked, ready, lifted, gates>>

(***************************************************************************)
(* exerciseSession                                                         *)
(***************************************************************************)
Begin(t) ==
    /\ phase = "exercising"
    /\ t \in Made(level) /\ main[t] = "none"
    /\ Acquire("connect", t)
    /\ main' = [main EXCEPT ![t] = IF free["connect"] > 0 THEN "connecting"
                                                         ELSE "queued"]
    /\ UNCHANGED <<outer, body, rounds, soaked, result, barrier>>

\* The place of t goes to the next, and t goes where it goes.
Hands(t, where) ==
    /\ Release("connect")
    /\ main' = [x \in Task |-> IF x = t THEN where
                               ELSE IF x \in Heir("connect") THEN "connecting"
                               ELSE main[x]]

Connected(t) ==
    /\ main[t] = "connecting"
    /\ Hands(t, "racing")
    /\ body' = [body EXCEPT ![t] = "page"]
    /\ UNCHANGED <<outer, rounds, soaked, result, barrier>>

\* A fault: no `finally`.
ConnectFailsHolding(t) ==
    /\ main[t] = "connecting"
    /\ main' = [main EXCEPT ![t] = "over"]
    /\ result' = [result EXCEPT ![t] = "failed"]
    /\ Mark(t)
    /\ UNCHANGED <<outer, body, rounds, soaked, gates>>

ConnectFails(t) ==
    /\ main[t] = "connecting"
    /\ Hands(t, "over")
    /\ result' = [result EXCEPT ![t] = "failed"]
    /\ Mark(t)
    /\ UNCHANGED <<outer, body, rounds, soaked>>

\* The body has ended, or the time-out: who comes first settles the race.
Race(t, how) ==
    IF main[t] = "racing"
    THEN /\ main' = [main EXCEPT ![t] = "closing"]
         /\ result' = [result EXCEPT ![t] = how]
    ELSE UNCHANGED <<main, result>>

ActionTimesOut(t) ==
    /\ main[t] = "racing"
    /\ Race(t, "failed")
    /\ UNCHANGED <<outer, body, rounds, soaked, barrier, gates>>

\* The browser is closed, or 5 s are over; a failure counts as ready.
Close(t) ==
    /\ main[t] = "closing"
    /\ main' = [main EXCEPT ![t] = "over"]
    /\ IF result[t] = "failed" THEN Mark(t) ELSE UNCHANGED barrier
    /\ UNCHANGED <<outer, body, rounds, soaked, result, gates>>

(***************************************************************************)
(* The body of an exercise                                                 *)
(***************************************************************************)
PageOpens(t) ==
    /\ body[t] = "page"
    /\ body' = [body EXCEPT ![t] = "barrier"]
    /\ Mark(t)
    /\ UNCHANGED <<outer, main, rounds, soaked, result, gates>>

PageFails(t) ==
    /\ body[t] = "page"
    /\ body' = [body EXCEPT ![t] = "ended"]
    /\ Race(t, "failed")
    /\ UNCHANGED <<outer, rounds, soaked, barrier, gates>>

\* gotoWithOptionalGate: of the first navigation behind the barrier, and of
\* later rounds.
Navigate(t) ==
    /\ \/ body[t] = "barrier" /\ t[1] \in lifted \cup timed
       \/ body[t] = "pausing" /\ rounds[t] < MaxRounds
    /\ Acquire("navigation", t)
    /\ body' = [body EXCEPT ![t] = IF free["navigation"] > 0 THEN "navigating"
                                                            ELSE "queued"]
    /\ UNCHANGED <<outer, main, rounds, soaked, result, barrier>>

\* The first failure of a body ends it; that of a later round is counted.
Navigated(t) ==
    /\ body[t] = "navigating"
    /\ Release("navigation")
    /\ rounds' = [rounds EXCEPT ![t] = @ + 1]
    /\ \E good \in BOOLEAN :
         LET throws == ~good /\ rounds[t] = 0
         IN /\ body' = [x \in Task |->
                          IF x = t THEN IF throws THEN "ended" ELSE "pausing"
                          ELSE IF x \in Heir("navigation") THEN "navigating"
                          ELSE body[x]]
            /\ soaked' = IF good \/ throws THEN soaked ELSE soaked \cup {t}
            /\ IF throws THEN Race(t, "failed") ELSE UNCHANGED <<main, result>>
    /\ UNCHANGED <<outer, barrier>>

\* The time of the soak is over.
Soaked(t) ==
    /\ body[t] = "pausing"
    /\ body' = [body EXCEPT ![t] = "ended"]
    /\ Race(t, "ok")
    /\ UNCHANGED <<outer, rounds, soaked, barrier, gates>>

TaskStep(t) ==
    \/ CreateSession(t) \/ Delete(t) \/ Begin(t) \/ Connected(t) \/ ConnectFails(t)
    \/ ActionTimesOut(t) \/ Close(t)
    \/ PageOpens(t) \/ PageFails(t) \/ Navigate(t) \/ Navigated(t) \/ Soaked(t)
LadderStep == \/ StartChildren \/ StartFails \/ WarmUp \/ Exercise \/ Exercised
              \/ Deleted \/ Settle \/ StopChildren

BenchNext == LadderStep \/ BarrierTimesOut \/ \E t \in Task : TaskStep(t)

\* Requests, connections, navigations and pauses are bounded in time, and the
\* benchmark's process runs.
BenchFairness == /\ WF_benchVars(LadderStep) /\ WF_benchVars(BarrierTimesOut)
                 /\ \A t \in Task : WF_benchVars(TaskStep(t))

BenchSpec == BenchInit /\ [][BenchNext]_benchVars /\ BenchFairness

(***************************************************************************)
(* Properties                                                              *)
(***************************************************************************)
\* No session of a level navigates before every other one has opened its page
\* or has failed, unless the time of the barrier is over: exercises that fail,
\* or are abandoned and go on, are counted once.
NavigationsStartTogether ==
    \A k \in DOMAIN Levels \ timed :
        (\E t \in At(k) : body[t] \in {"queued", "navigating", "pausing"}) =>
            \A t \in Made(k) : \/ body[t] \notin {"none", "page"}
                               \/ main[t] = "over"

\* The benchmark of a profile comes to an end, and has told every process it
\* started to stop: no exercise is left waiting for a gate or at the barrier.
BenchEnds == <>(phase = "over" /\ planeChild # "up" /\ agentChild # "up")
=============================================================================
