----------------------------- MODULE NodeAgent ------------------------------
(***************************************************************************)
(* The node agent in Firecracker mode (src/node-agent/agent.ts): admission *)
(* of launches, the warm pool and its refill, the claim of a warm VM with  *)
(* the cold restore as fallback, termination, the session monitor.         *)
(*                                                                         *)
(* vm is #sessions of FirecrackerOrchestrator: a machine is keyed by the   *)
(* id of the session it runs or of the warm preparation that restored it,  *)
(* and a claim changes its key.  What the orchestrator does to a machine   *)
(* inside one restore or destroy is the subject of NetworkSlots.           *)
(*                                                                         *)
(* One action is what the event loop runs between two awaits on I/O or on  *)
(* a timer.  A call is a POST /internal/sessions and its session id.       *)
(***************************************************************************)
EXTENDS Naturals, Sequences, FiniteSets, SequencesExt, FiniteSetsExt

CONSTANTS Call,            \* the launches asked for
          Warmable,        \* those a warm VM may serve: right profile, no proxy
          Warm,            \* ids of warm preparations (their number is a bound)
          NoWarm,          \* no warm id
          Configs,         \* the configured sizes looked at
          FillConcurrency, \* warmPoolFillConcurrency
          ClaimGate,       \* firecrackerWarmClaimConcurrency
          ColdGate,        \* firecrackerColdRestoreConcurrency
          RefillGate,      \* firecrackerLaunchConcurrency, 0: no limit
          WarmWait,        \* is firecrackerWarmWaitMs > 0?
          AdmissionWait,   \* is launchAdmissionWaitMs > 0?
          Fallback         \* firecrackerWarmFallbackToCold

ASSUME AgentAssumption ==
    /\ Warmable \subseteq Call
    /\ Call \cap Warm = {}
    /\ IsFiniteSet(Warm) /\ NoWarm \notin Warm
    /\ Configs \subseteq [pool : Nat, sessions : Nat, microvms : Nat]
    /\ FillConcurrency \in Nat
    /\ {ClaimGate, ColdGate, RefillGate} \subseteq Nat
    /\ {WarmWait, AdmissionWait, Fallback} \subseteq BOOLEAN

VARIABLES
    config,     \* warmPoolSize, maxSessions, firecrackerMaxMicrovmCount
    pc,         \* pc[c]: the await launchSession is at, or how it ended
    from,       \* from[c]: the warm id whose machine was claimed for c
    reserved,   \* keys of #launchReservations
    sessions,   \* keys of #sessions
    vm,         \* vm[x]: the machine #sessions of the orchestrator has at x
    ready,      \* #warmSessionIds of the orchestrator
    pool,       \* #firecrackerWarmPoolSessionIds
    prep,       \* prep[w]: where prepareWarmSession is
    late,       \* preparations whose time-out has passed
    preparing,  \* those #preparingWarmRuntimeCount counts
    fill,       \* where the promise of ensureWarmPool is
    probes,     \* warm ids revalidateWarmSessions has yet to look at
    probe,      \* the one it is probing
    claimLine,  \* who holds or waits for #firecrackerWarmClaimGate
    coldLine,   \* ... #coldRestoreGate
    refillLine, \* ... #firecrackerLaunchGate
    marked,     \* keys of #terminatingSessionIds
    ending,     \* terminateSession calls in progress
    said,       \* said[c]: the last status report sent for c
    monitor     \* where monitorSessions is

calls == <<pc, from, reserved>>
warming == <<pool, prep, late, preparing, fill, probes, probe>>
lines == <<claimLine, coldLine, refillLine>>
reports == <<marked, ending, said>>
vars == <<config, calls, sessions, vm, ready, warming, lines, reports, monitor>>

Id == Call \cup Warm
AfterAdmission == {"claimQueue", "handing", "dropping", "polling", "checking",
                   "coldQueue", "probing", "undoing"}
InFlight == AfterAdmission \cup {"admitting"}
EndReport == {"terminated", "failed"}

MonitorState == [at : {"idle", "visiting", "reporting", "posting", "reconciling"},
                 todo : SUBSET Call,  \* sessions of the snapshot not visited
                 who : SUBSET Call,   \* the session being visited
                 clean : BOOLEAN,     \* its end had been asked for
                 kill : SUBSET Id]    \* machines to reconcile away

TypeOK ==
    /\ config \in Configs
    /\ pc \in [Call -> InFlight \cup {"new", "up", "failed"}]
    /\ from \in [Call -> Warm \cup {NoWarm}]
    /\ {reserved, sessions, marked, ending} \subseteq SUBSET Call
    /\ vm \in [Id -> {"none", "up", "exited"}]
    /\ {ready, late, preparing, probes} \subseteq SUBSET Warm
    /\ pool \in Seq(Warm)
    /\ prep \in [Warm -> {"new", "queued", "restoring", "verifying", "failing",
                          "over"}]
    /\ fill \in {"idle", "probing", "building"}
    /\ probe \in Warm \cup {NoWarm}
    /\ {claimLine, coldLine} \subseteq Seq(Call)
    /\ refillLine \in Seq(Warm)
    /\ said \in [Call -> {"nothing", "running"} \cup EndReport]
    /\ monitor \in MonitorState

AtRest == [at |-> "idle", todo |-> {}, who |-> {}, clean |-> FALSE, kill |-> {}]

\* The agent has registered: main has run prepareRuntimeMode, and the timers
\* of the monitor and of the refill have started.
Init == /\ config \in Configs
        /\ pc = [c \in Call |-> "new"]
        /\ from = [c \in Call |-> NoWarm]
        /\ reserved = {}
        /\ sessions = {}
        /\ vm = [x \in Id |-> "none"]
        /\ ready = {}
        /\ pool = <<>>
        /\ prep = [w \in Warm |-> "new"]
        /\ late = {}
        /\ preparing = {}
        /\ fill = "idle"
        /\ probes = {}
        /\ probe = NoWarm
        /\ claimLine = <<>>
        /\ coldLine = <<>>
        /\ refillLine = <<>>
        /\ marked = {}
        /\ ending = {}
        /\ said = [c \in Call |-> "nothing"]
        /\ monitor = AtRest

Tracked == {x \in Id : vm[x] # "none"}
Goto(c, where) == pc' = [pc EXCEPT ![c] = where]

\* The entries of seq that are in S; those that are not are spliced out.
Kept(seq, S) ==
    LET kept[n \in 0..Len(seq)] ==
            IF n = 0 THEN <<>>
            ELSE IF seq[n] \in S THEN Append(kept[n - 1], seq[n])
                                 ELSE kept[n - 1]
    IN  kept[Len(seq)]

(***************************************************************************)
(* AsyncGate: who is among the first limit of the line is through, the     *)
(* others wait in order; a place given up goes to the first of them.       *)
(***************************************************************************)
Through(line, limit, x) ==
    limit = 0 \/ x \in ToSet(SubSeq(line, 1, Min({limit, Len(line)})))

\* A fault: whoever waits stays where it is.
StayInLine(line, x) == line

LeaveLine(line, x) == RemoveFirst(line, x)

(***************************************************************************)
(* launchSession                                                           *)
(***************************************************************************)
\* Places may be borrowed up to the depth of the warm pool.
HasLaunchCapacity ==
    Cardinality(sessions) + Cardinality(reserved) < config.sessions + Len(pool)

\* resolveEligibleFirecrackerWarmRuntimeProfile
EligibleForWarm(c) == config.pool > 0 /\ c \in Warmable /\ pool # <<>>

\* #reserveLaunchSlot finds a place; up to the first gate nothing is awaited.
Admit(c) ==
    /\ pc[c] \in {"new", "admitting"}
    /\ HasLaunchCapacity
    /\ reserved' = reserved \cup {c}
    /\ IF EligibleForWarm(c)
       THEN Goto(c, "claimQueue") /\ claimLine' = Append(claimLine, c)
       ELSE Goto(c, "checking") /\ UNCHANGED claimLine
    /\ UNCHANGED <<config, from, sessions, vm, ready, warming, coldLine,
                   refillLine, reports, monitor>>

\* "Host is at its configured session capacity.", at once or at the deadline.
Refuse(c) ==
    /\ pc[c] \in {"new", "admitting"}
    /\ ~HasLaunchCapacity
    /\ Goto(c, IF pc[c] = "new" /\ AdmissionWait THEN "admitting" ELSE "failed")
    /\ UNCHANGED <<config, from, reserved, sessions, vm, ready, warming, lines,
                   reports, monitor>>

\* The launch throws: its reservation goes, and with it the gates it holds.
Fail(c) == /\ Goto(c, "failed")
           /\ reserved' = reserved \ {c}

\* The launch succeeds: the session is listed as the reservation goes.
Succeed(c) == /\ Goto(c, "up")
              /\ reserved' = reserved \ {c}
              /\ sessions' = sessions \cup {c}

Claimable(w) == w \in ready /\ vm[w] # "none"

\* A fault: the machine keeps its warm id as well.
ClaimKeepsReady(c) ==
    /\ \/ pc[c] = "claimQueue" /\ Through(claimLine, ClaimGate, c)
       \/ pc[c] = "polling" /\ WarmWait /\ pool # <<>>
       \/ pc[c] = "dropping"
    /\ LET i == SelectInSeq(pool, Claimable)
       IN  IF i = 0
           THEN /\ pool' = <<>>
                /\ Goto(c, "polling")
                /\ UNCHANGED <<ready, vm, from>>
           ELSE /\ pool' = SubSeq(pool, i + 1, Len(pool))
                /\ IF vm[pool[i]] = "up"
                   THEN /\ vm' = [vm EXCEPT ![c] = "up"]
                        /\ from' = [from EXCEPT ![c] = pool[i]]
                        /\ Goto(c, "handing")
                   ELSE /\ vm' = [vm EXCEPT ![pool[i]] = "none"]
                        /\ Goto(c, "dropping")
                        /\ UNCHANGED from
                /\ UNCHANGED ready
    /\ UNCHANGED <<config, reserved, sessions, prep, late, preparing, fill, probes,
                   probe, lines, reports, monitor>>

\* #acquireWarmFirecrackerRuntimeExclusive shifts ids off the pool until
\* claimWarmSession has a machine for one: a live one changes its key, one
\* whose process has exited is destroyed and the loop goes on after that.
Claim(c) ==
    /\ \/ pc[c] = "claimQueue" /\ Through(claimLine, ClaimGate, c)
       \/ pc[c] = "polling" /\ WarmWait /\ pool # <<>>
       \/ pc[c] = "dropping"
    /\ LET i == SelectInSeq(pool, Claimable)
       IN  IF i = 0
           THEN /\ pool' = <<>>
                /\ ready' = ready \ ToSet(pool)
                /\ Goto(c, "polling")
                /\ UNCHANGED <<vm, from>>
           ELSE /\ pool' = SubSeq(pool, i + 1, Len(pool))
                /\ ready' = ready \ ToSet(SubSeq(pool, 1, i))
                /\ IF vm[pool[i]] = "up"
                   THEN /\ vm' = [vm EXCEPT ![pool[i]] = "none", ![c] = "up"]
                        /\ from' = [from EXCEPT ![c] = pool[i]]
                        /\ Goto(c, "handing")
                   ELSE /\ vm' = [vm EXCEPT ![pool[i]] = "none"]
                        /\ Goto(c, "dropping")
                        /\ UNCHANGED from
    /\ UNCHANGED <<config, reserved, sessions, prep, late, preparing, fill, probes,
                   probe, lines, reports, monitor>>

\* The VM answers the probes of the hand-over.  It may have been terminated
\* since: then the session is listed without a machine.
HandOver(c) ==
    /\ pc[c] = "handing"
    /\ vm[c] # "exited"
    /\ Succeed(c)
    /\ claimLine' = LeaveLine(claimLine, c)
    /\ UNCHANGED <<config, from, vm, ready, warming, coldLine, refillLine, reports,
                   monitor>>

\* It does not: claimWarmSession destroys it and the next warm VM is tried.
HandOverFails(c) ==
    /\ pc[c] = "handing"
    /\ vm' = [vm EXCEPT ![c] = "none"]
    /\ Goto(c, "dropping")
    /\ UNCHANGED <<config, from, reserved, sessions, ready, warming, lines, reports,
                   monitor>>

\* No warm VM by the deadline.
GiveUp(c) ==
    /\ pc[c] = "polling"
    /\ pool = <<>> \/ ~WarmWait
    /\ claimLine' = LeaveLine(claimLine, c)
    /\ IF Fallback THEN Goto(c, "checking") /\ UNCHANGED reserved ELSE Fail(c)
    /\ UNCHANGED <<config, from, sessions, vm, ready, warming, coldLine, refillLine,
                   reports, monitor>>

\* projectedMicrovmCount
Projected ==
    Cardinality(Tracked) + Cardinality(preparing) + Max({1, Cardinality(reserved)})

\* #assertAdmission lets the launch pass, which then waits for the cold gate ...
CheckPasses(c) ==
    /\ pc[c] = "checking"
    /\ Projected <= config.microvms
    /\ Goto(c, "coldQueue")
    /\ coldLine' = Append(coldLine, c)
    /\ UNCHANGED <<config, from, reserved, sessions, vm, ready, warming, claimLine,
                   refillLine, reports, monitor>>

\* ... or refuses it: for that count, or for the memory, the crashes, the CPU
\* or the navigations of the host.
CheckFails(c) ==
    /\ pc[c] = "checking"
    /\ Fail(c)
    /\ UNCHANGED <<config, from, sessions, vm, ready, warming, lines, reports,
                   monitor>>

\* restoreSession has started Firecracker and tracks the machine.
Spawn(c) ==
    /\ pc[c] = "coldQueue"
    /\ Through(coldLine, ColdGate, c)
    /\ vm' = [vm EXCEPT ![c] = "up"]
    /\ Goto(c, "probing")
    /\ UNCHANGED <<config, from, reserved, sessions, ready, warming, lines, reports,
                   monitor>>

Restored(c) ==
    /\ pc[c] = "probing"
    /\ vm[c] # "exited"
    /\ Succeed(c)
    /\ coldLine' = LeaveLine(coldLine, c)
    /\ UNCHANGED <<config, from, vm, ready, warming, claimLine, refillLine, reports,
                   monitor>>

\* restoreSession throws, once what there is of the machine is destroyed.
RestoreFails(c) ==
    /\ \/ pc[c] = "coldQueue" /\ Through(coldLine, ColdGate, c)
       \/ pc[c] = "probing"
    /\ vm' = [vm EXCEPT ![c] = "none"]
    /\ Goto(c, "undoing")
    /\ UNCHANGED <<config, from, reserved, sessions, ready, warming, lines, reports,
                   monitor>>

Undone(c) ==
    /\ pc[c] = "undoing"
    /\ Fail(c)
    /\ coldLine' = LeaveLine(coldLine, c)
    /\ UNCHANGED <<config, from, sessions, vm, ready, warming, claimLine, refillLine,
                   reports, monitor>>

(***************************************************************************)
(* ensureWarmPool: probe the warm VMs, then build what is missing          *)
(***************************************************************************)
\* Once a second, and after every launch, claim and termination: it starts
\* unless it is already under way.  Warm VMs probed a short while ago are left out.
Maintain ==
    /\ config.pool > 0
    /\ fill = "idle"
    /\ fill' = "probing"
    /\ probes' \in SUBSET ready
    /\ UNCHANGED <<config, calls, sessions, vm, ready, pool, prep, late, preparing,
                   probe, lines, reports, monitor>>

\* revalidateWarmSessions comes to w.
Probe(w) ==
    /\ w \in probes
    /\ probe = NoWarm
    /\ probes' = probes \ {w}
    /\ IF vm[w] = "none" THEN ready' = ready \ {w} /\ UNCHANGED probe
                         ELSE probe' = w /\ UNCHANGED ready
    /\ UNCHANGED <<config, calls, sessions, vm, pool, prep, late, preparing, fill,
                   lines, reports, monitor>>

ProbeAnswered(w) ==
    /\ probe = w
    /\ vm[w] # "exited"
    /\ probe' = NoWarm
    /\ UNCHANGED <<config, calls, sessions, vm, ready, pool, prep, late, preparing,
                   fill, probes, lines, reports, monitor>>

\* The machine is destroyed, also when a session has claimed it meanwhile.
ProbeFails(w) ==
    /\ probe = w
    /\ probe' = NoWarm
    /\ ready' = ready \ {w}
    /\ vm' = [x \in Id |-> IF x = w THEN "none"
                           ELSE IF x \in Call /\ vm[x] = "up" /\ from[x] = w
                                THEN "exited" ELSE vm[x]]
    /\ UNCHANGED <<config, calls, sessions, pool, prep, late, preparing, fill,
                   probes, lines, reports, monitor>>

\* computeFirecrackerWarmFillTarget, halved while the pool is not near empty.
FillTarget(depth) ==
    LET missing == config.pool - depth - Cardinality(preparing)
        room == config.microvms - Cardinality(Tracked) - Cardinality(preparing)
        floor == Max({2, config.pool \div 4})
        cap == Max({1, FillConcurrency \div (IF depth >= floor THEN 2 ELSE 1)})
    IN  IF missing <= 0 \/ room <= 0 THEN 0 ELSE Min({missing, room, cap})

\* Ids whose machine is gone leave the pool, and that many preparations start
\* (as many as there are ids left in Warm).
Build ==
    /\ fill = "probing"
    /\ probes = {}
    /\ probe = NoWarm
    /\ LET live == {w \in Warm : vm[w] = "up"}
           kept == Kept(pool, live)
           fresh == {w \in Warm : prep[w] = "new"}
       IN  \E W \in kSubset(Min({FillTarget(Len(kept)), Cardinality(fresh)}), fresh) :
              /\ pool' = kept
              /\ prep' = [w \in Warm |-> IF w \in W THEN "queued" ELSE prep[w]]
              /\ preparing' = preparing \cup W
              /\ refillLine' = refillLine \o SetToSeq(W)
    /\ fill' = "building"
    /\ UNCHANGED <<config, calls, sessions, vm, ready, late, probes, probe, claimLine,
                   coldLine, reports, monitor>>

FillEnds ==
    /\ fill = "building"
    /\ preparing = {}
    /\ fill' = "idle"
    /\ UNCHANGED <<config, calls, sessions, vm, ready, pool, prep, late, preparing,
                   probes, probe, lines, reports, monitor>>

PrepBegins(w) ==
    /\ prep[w] = "queued"
    /\ Through(refillLine, RefillGate, w)
    /\ prep' = [prep EXCEPT ![w] = "restoring"]
    /\ UNCHANGED <<config, calls, sessions, vm, ready, pool, late, preparing, fill,
                   probes, probe, lines, reports, monitor>>

PrepSpawns(w) ==
    /\ prep[w] = "restoring"
    /\ vm' = [vm EXCEPT ![w] = "up"]
    /\ prep' = [prep EXCEPT ![w] = "verifying"]
    /\ UNCHANGED <<config, calls, sessions, ready, pool, late, preparing, fill,
                   probes, probe, lines, reports, monitor>>

\* A fault: the id goes to the pool whenever the VM is ready.
PrepEndsAnyway(w) ==
    /\ prep[w] = "verifying"
    /\ vm[w] # "exited"
    /\ ready' = ready \cup {w}
    /\ prep' = [prep EXCEPT ![w] = "over"]
    /\ pool' = Append(pool, w)
    /\ preparing' = preparing \ {w}
    /\ refillLine' = LeaveLine(refillLine, w)
    /\ UNCHANGED <<config, calls, sessions, vm, late, fill, probes, probe, claimLine,
                   coldLine, reports, monitor>>

\* The VM is verified and warm; in time, its id goes to the pool.
PrepEnds(w) ==
    /\ prep[w] = "verifying"
    /\ vm[w] # "exited"
    /\ ready' = ready \cup {w}
    /\ prep' = [prep EXCEPT ![w] = "over"]
    /\ IF w \in late THEN UNCHANGED <<pool, preparing, refillLine>>
       ELSE /\ pool' = Append(pool, w)
            /\ preparing' = preparing \ {w}
            /\ refillLine' = LeaveLine(refillLine, w)
    /\ UNCHANGED <<config, calls, sessions, vm, late, fill, probes, probe, claimLine,
                   coldLine, reports, monitor>>

\* It fails, and destroys what there is of the machine ...
PrepFails(w) ==
    /\ prep[w] \in {"restoring", "verifying"}
    /\ vm' = [vm EXCEPT ![w] = "none"]
    /\ prep' = [prep EXCEPT ![w] = "failing"]
    /\ UNCHANGED <<config, calls, sessions, ready, pool, late, preparing, fill, probes,
                   probe, lines, reports, monitor>>

\* ... before it throws.
PrepThrows(w) ==
    /\ prep[w] = "failing"
    /\ prep' = [prep EXCEPT ![w] = "over"]
    /\ IF w \in late THEN UNCHANGED <<preparing, refillLine>>
       ELSE /\ preparing' = preparing \ {w}
            /\ refillLine' = LeaveLine(refillLine, w)
    /\ UNCHANGED <<config, calls, sessions, vm, ready, pool, late, fill, probes,
                   probe, claimLine, coldLine, reports, monitor>>

\* The race is lost to the time-out: the gate is released and the id
\* terminated, which does nothing if no machine is tracked under it yet.  The
\* preparation goes on by itself.
PrepTimesOut(w) ==
    /\ prep[w] \in {"restoring", "verifying", "failing"}
    /\ w \notin late
    /\ late' = late \cup {w}
    /\ refillLine' = LeaveLine(refillLine, w)
    /\ vm' = [vm EXCEPT ![w] = "none"]
    /\ preparing' = IF vm[w] = "none" THEN preparing \ {w} ELSE preparing
    /\ UNCHANGED <<config, calls, sessions, ready, pool, prep, fill, probes, probe,
                   claimLine, coldLine, reports, monitor>>

\* That termination is done.
PrepGivenUp(w) ==
    /\ w \in late \cap preparing
    /\ preparing' = preparing \ {w}
    /\ UNCHANGED <<config, calls, sessions, vm, ready, pool, prep, late, fill, probes,
                   probe, lines, reports, monitor>>

(***************************************************************************)
(* terminateSession and monitorSessions                                    *)
(***************************************************************************)
\* Up to the destruction of the machine, which is awaited.
EndSession(c) ==
    /\ marked' = marked \cup {c}
    /\ ending' = ending \cup {c}
    /\ sessions' = sessions \ {c}
    /\ vm' = [vm EXCEPT ![c] = "none"]

\* DELETE /internal/sessions/c
Terminate(c) ==
    /\ c \in sessions
    /\ EndSession(c)
    /\ UNCHANGED <<config, calls, ready, warming, lines, said, monitor>>

EndReported(c) ==
    /\ c \in ending
    /\ ending' = ending \ {c}
    /\ said' = [said EXCEPT ![c] = "terminated"]
    /\ UNCHANGED <<config, calls, sessions, vm, ready, warming, lines, marked, monitor>>

\* The timer fires, and the pass before it has ended.
MonitorBegins ==
    /\ monitor.at = "idle"
    /\ monitor' = [monitor EXCEPT !.at = "visiting", !.todo = sessions]
    /\ UNCHANGED <<config, calls, sessions, vm, ready, warming, lines, reports>>

\* The loop awaits the termination of a session that had expired.
MayVisit(c) == /\ monitor.at = "visiting"
               /\ monitor.who \cap ending = {}
               /\ c \in monitor.todo

\* A fault: the status is not read again when the turn of the session comes.
VisitBlindly(c) ==
    /\ MayVisit(c)
    /\ IF vm[c] = "exited"
       THEN /\ sessions' = sessions \ {c}
            /\ vm' = [vm EXCEPT ![c] = "none"]
            /\ monitor' = [monitor EXCEPT !.at = "reporting", !.todo = @ \ {c},
                                          !.who = {c}, !.clean = c \in marked]
            /\ UNCHANGED said
       ELSE /\ said' = [said EXCEPT ![c] = "running"]
            /\ monitor' = [monitor EXCEPT !.at = "posting", !.todo = @ \ {c},
                                          !.who = {c}]
            /\ UNCHANGED <<sessions, vm>>
    /\ UNCHANGED <<config, calls, ready, warming, lines, marked, ending>>

\* A fault: a session whose machine is gone is left for its terminator.
VisitLiving(c) ==
    /\ MayVisit(c)
    /\ IF vm[c] = "exited"
       THEN /\ sessions' = sessions \ {c}
            /\ vm' = [vm EXCEPT ![c] = "none"]
            /\ monitor' = [monitor EXCEPT !.at = "reporting", !.todo = @ \ {c},
                                          !.who = {c}, !.clean = c \in marked]
            /\ UNCHANGED said
       ELSE /\ monitor' = [monitor EXCEPT !.todo = @ \ {c}]
            /\ UNCHANGED <<sessions, vm, said>>
    /\ UNCHANGED <<config, calls, ready, warming, lines, marked, ending>>

\* A session of the snapshot is looked at: without a live machine it is taken
\* off the list and the machine destroyed; else it is reported running.
Visit(c) ==
    /\ MayVisit(c)
    /\ IF vm[c] # "up"
       THEN /\ sessions' = sessions \ {c}
            /\ vm' = [vm EXCEPT ![c] = "none"]
            /\ monitor' = [monitor EXCEPT !.at = "reporting", !.todo = @ \ {c},
                                          !.who = {c}, !.clean = c \in marked]
            /\ UNCHANGED said
       ELSE /\ said' = [said EXCEPT ![c] = "running"]
            /\ monitor' = [monitor EXCEPT !.at = "posting", !.todo = @ \ {c},
                                          !.who = {c}]
            /\ UNCHANGED <<sessions, vm>>
    /\ UNCHANGED <<config, calls, ready, warming, lines, marked, ending>>

\* An end the agent was asked for is no crash.
MonitorReports(c) ==
    /\ monitor.at = "reporting"
    /\ c \in monitor.who
    /\ said' = [said EXCEPT ![c] = IF monitor.clean THEN "terminated" ELSE "failed"]
    /\ monitor' = [monitor EXCEPT !.at = "visiting", !.who = {}]
    /\ UNCHANGED <<config, calls, sessions, vm, ready, warming, lines, marked, ending>>

\* The report of a running session has been answered: the session has time
\* left or is gone, and the loop goes on; or it has expired, and the loop
\* awaits its termination.
MonitorGoesOn(c) ==
    /\ monitor.at = "posting"
    /\ c \in monitor.who
    /\ monitor' = [monitor EXCEPT !.at = "visiting", !.who = {}]
    /\ UNCHANGED <<config, calls, sessions, vm, ready, warming, lines, reports>>

MonitorExpires(c) ==
    /\ monitor.at = "posting"
    /\ c \in monitor.who \cap sessions
    /\ EndSession(c)
    /\ monitor' = [monitor EXCEPT !.at = "visiting"]
    /\ UNCHANGED <<config, calls, ready, warming, lines, said>>

\* reconcileTrackedSessions: what is tracked, not listed and not warm now ...
Reconcile ==
    /\ monitor.at = "visiting"
    /\ monitor.todo = {}
    /\ monitor.who \cap ending = {}
    /\ monitor' = [monitor EXCEPT !.at = "reconciling", !.who = {},
                      !.kill = Tracked \ (sessions \cup ToSet(pool) \cup ready)]
    /\ UNCHANGED <<config, calls, sessions, vm, ready, warming, lines, reports>>

\* ... is terminated, one after the other, whatever it has become meanwhile.
ReconcileKills(x) ==
    /\ monitor.at = "reconciling"
    /\ x \in monitor.kill
    /\ monitor' = [monitor EXCEPT !.kill = @ \ {x}]
    /\ vm' = [vm EXCEPT ![x] = "none"]
    /\ ready' = ready \ {x}
    /\ UNCHANGED <<config, calls, sessions, warming, lines, reports>>

MonitorEnds ==
    /\ monitor.at = "reconciling"
    /\ monitor.kill = {}
    /\ monitor' = AtRest
    /\ UNCHANGED <<config, calls, sessions, vm, ready, warming, lines, reports>>

\* The process of a listed or a warm VM exits by itself.
Exit(x) == /\ x \in sessions \cup ready
           /\ vm[x] = "up"
           /\ vm' = [vm EXCEPT ![x] = "exited"]
           /\ UNCHANGED <<config, calls, sessions, ready, warming, lines, reports,
                          monitor>>

CallStep(c) ==
    \/ pc[c] # "new" /\ (Admit(c) \/ Refuse(c))
    \/ Claim(c) \/ HandOver(c) \/ HandOverFails(c) \/ GiveUp(c)
    \/ CheckPasses(c) \/ CheckFails(c)
    \/ Spawn(c) \/ Restored(c) \/ RestoreFails(c) \/ Undone(c)

PrepStep(w) ==
    \/ PrepBegins(w) \/ PrepSpawns(w) \/ PrepEnds(w) \/ PrepFails(w)
    \/ PrepThrows(w) \/ PrepTimesOut(w) \/ PrepGivenUp(w)

FillStep ==
    \/ \E w \in Warm : Probe(w) \/ ProbeAnswered(w) \/ ProbeFails(w)
    \/ Build \/ FillEnds

MonitorStep ==
    \/ MonitorBegins \/ Reconcile \/ MonitorEnds
    \/ \E c \in Call : \/ Visit(c) \/ MonitorReports(c)
                       \/ MonitorGoesOn(c) \/ MonitorExpires(c)
    \/ \E x \in Id : ReconcileKills(x)

Next ==
    \/ \E c \in Call : \/ pc[c] = "new" /\ (Admit(c) \/ Refuse(c))
                       \/ CallStep(c) \/ Terminate(c) \/ EndReported(c)
    \/ \E w \in Warm : PrepStep(w)
    \/ Maintain \/ FillStep \/ MonitorStep
    \/ \E x \in Id : Exit(x)

Spec == Init /\ [][Next]_vars

\* Awaits come back, deadlines pass, timers fire; no call need come, and no
\* machine need exit.
Fairness == /\ \A c \in Call : WF_vars(CallStep(c)) /\ WF_vars(EndReported(c))
            /\ \A w \in Warm : WF_vars(PrepStep(w))
            /\ WF_vars(FillStep)

FairSpec == Spec /\ Fairness /\ WF_vars(MonitorStep)

(***************************************************************************)
(* Properties                                                              *)
(***************************************************************************)
\* "Hard cap for active and warm Firecracker microVMs"
\* (docs/BENCHMARKS.md:216, FIRECRACKER_MAX_MICROVM_COUNT).
MicrovmCap == Cardinality(Tracked) <= config.microvms

\* Ready and on the way, the pool has no more than warmPoolSize VMs and none
\* twice, although a preparation may come to its end after its time-out, when
\* another one has taken its place.
PoolIsBounded == /\ Len(pool) + Cardinality(preparing) <= config.pool
                 /\ IsInjective(pool)

\* A live warm VM is in the pool, where a launch finds it.  One whose
\* preparation timed out before it was tracked is not: it counts against the
\* cap, no launch can claim it, and the reconciliation spares it.
WarmVMsAreClaimable ==
    \A w \in ready : vm[w] = "up" => w \in ToSet(pool) \cup late

\* The control plane is not told that a session runs after it was told of its
\* end: the monitor's snapshot may be older than the end, its look at the
\* machine is not.
NoRunningAfterEnd ==
    [][ \A c \in Call : said[c] \in EndReport => said'[c] # "running" ]_vars

\* A launch comes back, through three gates, polls and retries with the next VM.
LaunchesReturn == \A c \in Call : pc[c] \in InFlight ~> pc[c] \notin InFlight

\* A session whose VM has exited, or was killed as not listed while it was
\* being launched, is taken off the list and its end reported.
DeadSessionsAreReported ==
    \A c \in Call : (c \in sessions /\ vm[c] # "up")
                    ~> (c \notin sessions /\ said[c] \in EndReport)
=============================================================================
