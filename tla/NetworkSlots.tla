---------------------------- MODULE NetworkSlots ----------------------------
(***************************************************************************)
(* The pool of prepared network slots (one network namespace each) that    *)
(* Firecracker VMs run in, and the paths of a VM through it: restore with  *)
(* retries, warm preparation, hand-over of a warm VM, keep-alive probes,   *)
(* termination, and the rebuild of a slot found broken                     *)
(* (FirecrackerOrchestrator in src/node-agent/firecracker.ts).             *)
(*                                                                         *)
(* One action is what the event loop runs between two awaits on I/O; the   *)
(* microtasks that follow at once are part of it.  A launch is a sessionId *)
(* and the VM restored for it; each is started once per life of the agent. *)
(***************************************************************************)
EXTENDS Naturals, Sequences, FiniteSets, SequencesExt

CONSTANTS NSlots,      \* size of the pool
          Launch,      \* the launches
          Warm,        \* those that prepare a VM for the warm pool
          MaxAttempts, \* 1 + firecrackerRestoreRetries
          Monitor      \* does the monitor run while a launch is in flight?

ASSUME PoolAssumption ==
    /\ NSlots \in Nat \ {0}
    /\ Warm \subseteq Launch
    /\ MaxAttempts \in Nat \ {0}
    /\ Monitor \in BOOLEAN

Slot == 1..NSlots
None == 0

VARIABLES
    state,       \* state[s]: FirecrackerNetworkSlotState
    unchecked,   \* unchecked[s]: requiresClaimValidation
    free,        \* #freeNetworkSlotIds
    rebuilds,    \* keys of #slotRebuildPromises
    background,  \* those of them #scheduleSlotRebuild started
    pc,          \* pc[l]: the await launch l is at, or where its VM ended up
    attempt,     \* attempt[l]: the restore attempt l is in
    slot,        \* slot[l]: the slot l has taken from the free list
    replaced,    \* replaced[l]: a rebuild replaced the slot object l looks at
    awaited,     \* awaited[l]: rebuilds l waits to see settled
    tracked,     \* tracked[l]: #sessions has the VM of l
    vm,          \* vm[l]: the VM process of l is alive
    probing,     \* probing[l]: a keep-alive probe of l's VM is in flight
    destroys,    \* #destroyMachine calls in progress
    running      \* the node-agent process is up

slots == <<state, unchecked, free, rebuilds, background>>
launches == <<pc, attempt, slot, replaced, awaited>>
machines == <<tracked, vm, probing>>
vars == <<slots, launches, machines, destroys, running>>

InFlight == {"claiming", "waiting", "checking", "joining", "prelaunch",
             "restoring", "catching", "verifying", "handing"}
Ended == {"idle", "warm", "up", "failed", "closed"}

Destroy == [owner : Launch, attempt : 1..MaxAttempts, slot : Slot,
            for : {"retry", "dead", "terminate", "evict", "keepalive"},
            step : {"killing", "finishing"}]

TypeOK ==
    /\ state \in [Slot -> {"free", "reserved", "unhealthy", "rebuilding"}]
    /\ unchecked \in [Slot -> BOOLEAN]
    /\ free \in Seq(Slot)
    /\ rebuilds \subseteq Slot
    /\ background \subseteq rebuilds
    /\ pc \in [Launch -> InFlight \cup Ended]
    /\ attempt \in [Launch -> 1..MaxAttempts]
    /\ slot \in [Launch -> Slot \cup {None}]
    /\ replaced \in [Launch -> BOOLEAN]
    /\ awaited \in [Launch -> SUBSET Slot]
    /\ tracked \in [Launch -> BOOLEAN]
    /\ vm \in [Launch -> BOOLEAN]
    /\ probing \in [Launch -> BOOLEAN]
    /\ destroys \subseteq Destroy
    /\ running \in BOOLEAN

\* A life of the agent: prepareRuntimeMode has killed what an earlier life left
\* (reconcileStaleResources) and built every slot (prepareNetworkPool).
Init == /\ state = [s \in Slot |-> "free"]
        /\ unchecked = [s \in Slot |-> FALSE]
        /\ free = [s \in Slot |-> s]
        /\ rebuilds = {}
        /\ background = {}
        /\ pc = [l \in Launch |-> "idle"]
        /\ attempt = [l \in Launch |-> 1]
        /\ slot = [l \in Launch |-> None]
        /\ replaced = [l \in Launch |-> FALSE]
        /\ awaited = [l \in Launch |-> {}]
        /\ tracked = [l \in Launch |-> FALSE]
        /\ vm = [l \in Launch |-> FALSE]
        /\ probing = [l \in Launch |-> FALSE]
        /\ destroys = {}
        /\ running = TRUE

Goto(l, where) == pc' = [pc EXCEPT ![l] = where]

\* The slots of S in ascending order.
Sorted(S) ==
    CHOOSE seq \in [1..Cardinality(S) -> S] :
        /\ ToSet(seq) = S
        /\ \A i, j \in 1..Cardinality(S) : i < j => seq[i] < seq[j]

(***************************************************************************)
(* Taking a slot, giving it back, sending it to be rebuilt                 *)
(***************************************************************************)

CanRelease(st) == st = "reserved"

ReleaseSlot(s) ==
    IF CanRelease(state[s])
    THEN /\ state' = [state EXCEPT ![s] = "free"]
         /\ unchecked' = [unchecked EXCEPT ![s] = TRUE]
         /\ free' = IF s \in ToSet(free) THEN free ELSE Append(free, s)
         /\ UNCHANGED <<rebuilds, background>>
    ELSE UNCHANGED slots

\* #markSlotUnhealthy with #scheduleSlotRebuild: the rebuild sets "rebuilding"
\* before its first await, unless one is already under way.
MarkUnhealthy(s) ==
    /\ state' = [state EXCEPT ![s] =
                    IF s \in rebuilds THEN "unhealthy" ELSE "rebuilding"]
    /\ unchecked' = [unchecked EXCEPT ![s] = TRUE]
    /\ free' = RemoveFirst(free, s)
    /\ rebuilds' = rebuilds \cup {s}
    /\ background' = IF s \in rebuilds THEN background ELSE background \cup {s}

\* The entries #claimNetworkSlot shifts off the list before it finds a free slot.
FirstFree(seq) == SelectInSeq(seq, LAMBDA s : state[s] = "free")

\* restoreSession, as far as #claimNetworkSlot.
BeginLaunch(l) ==
    /\ pc[l] = "idle"
    /\ Goto(l, "claiming")
    /\ UNCHANGED <<slots, attempt, slot, replaced, awaited, machines, destroys,
                   running>>

ReserveSlot(l, s) == /\ state' = [state EXCEPT ![s] = "reserved"]
                     /\ unchecked' = [unchecked EXCEPT ![s] = FALSE]
                     /\ Goto(l, "prelaunch")

\* A fault: the slot stays on the list while it is checked.
PeekSlot(l) ==
    /\ pc[l] = "claiming"
    /\ FirstFree(free) # 0
    /\ LET s == free[FirstFree(free)]
       IN  /\ slot' = [slot EXCEPT ![l] = s]
           /\ IF unchecked[s]
              THEN Goto(l, "checking") /\ UNCHANGED <<state, unchecked, free>>
              ELSE ReserveSlot(l, s) /\ free' = RemoveFirst(free, s)
    /\ replaced' = [replaced EXCEPT ![l] = FALSE]
    /\ UNCHANGED <<rebuilds, background, attempt, awaited, machines, destroys,
                   running>>

\* A free slot is on the list; it is checked first if a VM has used it since
\* it was built.  While it is checked it is off the list and still "free".
TakeSlot(l) ==
    /\ pc[l] = "claiming"
    /\ FirstFree(free) # 0
    /\ LET i == FirstFree(free)
           s == free[i]
       IN  /\ free' = SubSeq(free, i + 1, Len(free))
           /\ slot' = [slot EXCEPT ![l] = s]
           /\ IF unchecked[s]
              THEN Goto(l, "checking") /\ UNCHANGED <<state, unchecked>>
              ELSE ReserveSlot(l, s)
    /\ replaced' = [replaced EXCEPT ![l] = FALSE]
    /\ UNCHANGED <<rebuilds, background, attempt, awaited, machines, destroys,
                   running>>

\* No free slot, but some are being rebuilt: wait for all of those, then retry.
AwaitRebuilds(l) ==
    /\ pc[l] = "claiming"
    /\ FirstFree(free) = 0
    /\ rebuilds # {}
    /\ free' = <<>>
    /\ awaited' = [awaited EXCEPT ![l] = rebuilds]
    /\ Goto(l, "waiting")
    /\ UNCHANGED <<state, unchecked, rebuilds, background, attempt, slot,
                   replaced, machines, destroys, running>>

\* "No prepared Firecracker network slots are available."
NoSlot(l) ==
    /\ pc[l] = "claiming"
    /\ FirstFree(free) = 0
    /\ rebuilds = {}
    /\ free' = <<>>
    /\ Goto(l, "failed")
    /\ UNCHANGED <<state, unchecked, rebuilds, background, attempt, slot,
                   replaced, awaited, machines, destroys, running>>

\* validateSlotNetworkFast answers yes: the object looked at is reserved, which
\* is not the slot any more if a rebuild has replaced it meanwhile.
CheckPasses(l) ==
    /\ pc[l] = "checking"
    /\ IF replaced[l] THEN Goto(l, "prelaunch") /\ UNCHANGED <<state, unchecked>>
                      ELSE ReserveSlot(l, slot[l])
    /\ UNCHANGED <<free, rebuilds, background, attempt, slot, replaced, awaited,
                   machines, destroys, running>>

\* It answers no: rebuild the slot, or join the rebuild under way.
CheckFails(l) ==
    /\ pc[l] = "checking"
    /\ LET s == slot[l]
       IN  /\ state' = [state EXCEPT ![s] =
                          IF s \notin rebuilds THEN "rebuilding"
                          ELSE IF replaced[l] THEN @ ELSE "unhealthy"]
           /\ rebuilds' = rebuilds \cup {s}
    /\ Goto(l, "joining")
    /\ UNCHANGED <<unchecked, free, background, attempt, slot, replaced, awaited,
                   machines, destroys, running>>

(***************************************************************************)
(* #rebuildNetworkSlot                                                     *)
(***************************************************************************)
Joined(s) == {l \in Launch : pc[l] = "joining" /\ slot[l] = s}
Awaiting(s) == {l \in Launch : pc[l] = "waiting" /\ s \in awaited[l]}

\* Everything in the namespace of s is killed.
KillIn(s, also) == vm' = [l \in Launch |-> vm[l] /\ slot[l] # s /\ l \notin also]

SettleRebuild(s, joinedGoTo) ==
    /\ rebuilds' = rebuilds \ {s}
    /\ background' = background \ {s}
    /\ awaited' = [l \in Launch |-> awaited[l] \ {s}]
    /\ pc' = [l \in Launch |->
                IF l \in Joined(s) THEN joinedGoTo
                ELSE IF l \in Awaiting(s) /\ awaited[l] = {s} THEN "claiming"
                ELSE pc[l]]
    /\ KillIn(s, {})

\* The namespace is removed and set up again, and a new slot object replaces
\* the old one on the list, which is sorted; a launch that joined the rebuild
\* takes it off the list at once.
RebuildSucceeds(s) ==
    /\ s \in rebuilds
    /\ SettleRebuild(s, "prelaunch")
    /\ state' = [state EXCEPT ![s] = IF Joined(s) = {} THEN "free" ELSE "reserved"]
    /\ unchecked' = [unchecked EXCEPT ![s] = FALSE]
    /\ free' = Sorted((ToSet(free) \ {s}) \cup (IF Joined(s) = {} THEN {s} ELSE {}))
    /\ replaced' = [l \in Launch |->
                      replaced[l] \/ (pc[l] = "checking" /\ slot[l] = s)]
    /\ UNCHANGED <<attempt, slot, tracked, probing, destroys, running>>

\* A fault: a rebuild that throws leaves those who joined it waiting.
RebuildHangs(s) ==
    /\ s \in rebuilds
    /\ SettleRebuild(s, "joining")
    /\ running' = (s \notin background \/ Joined(s) # {} \/ Awaiting(s) # {})
    /\ UNCHANGED <<state, unchecked, free, attempt, slot, replaced, tracked,
                   probing, destroys>>

\* It throws: those who joined it fail, those who waited try again, and the
\* slot keeps its state.  The rejection of a rebuild that nobody joined or
\* waits for is handled by nobody, and ends the process.
RebuildFails(s) ==
    /\ s \in rebuilds
    /\ SettleRebuild(s, "failed")
    /\ running' = (s \notin background \/ Joined(s) # {} \/ Awaiting(s) # {})
    /\ UNCHANGED <<state, unchecked, free, attempt, slot, replaced, tracked,
                   probing, destroys>>

(***************************************************************************)
(* A launch once it has a slot                                             *)
(***************************************************************************)
\* #spawnMachine: the prelaunch clean-up kills what is left in the namespace,
\* then Firecracker starts there and #sessions has the VM.
Spawn(l) ==
    /\ pc[l] = "prelaunch"
    /\ vm' = [k \in Launch |-> IF k = l THEN TRUE
                                        ELSE vm[k] /\ slot[k] # slot[l]]
    /\ tracked' = [tracked EXCEPT ![l] = TRUE]
    /\ Goto(l, "restoring")
    /\ UNCHANGED <<slots, attempt, slot, replaced, awaited, probing, destroys,
                   running>>

\* A fault: the slot is left as it is.
SpawnFailsQuietly(l) ==
    /\ pc[l] = "prelaunch"
    /\ KillIn(slot[l], {l})
    /\ Goto(l, "failed")
    /\ UNCHANGED <<slots, attempt, slot, replaced, awaited, tracked, probing,
                   destroys, running>>

\* The catch of #spawnMachine: the slot is not trusted, nothing is retried.
SpawnFails(l) ==
    /\ pc[l] = "prelaunch"
    /\ MarkUnhealthy(slot[l])
    /\ KillIn(slot[l], {l})
    /\ Goto(l, "failed")
    /\ UNCHANGED <<attempt, slot, replaced, awaited, tracked, probing, destroys,
                   running>>

\* The CDP probes of restoreSession answer.  prepareWarmSession goes on to
\* verify the VM, unless #sessions has lost it by then.
Restored(l) ==
    /\ pc[l] = "restoring"
    /\ vm[l]
    /\ Goto(l, IF l \notin Warm THEN "up"
               ELSE IF tracked[l] THEN "verifying" ELSE "failed")
    /\ UNCHANGED <<slots, attempt, slot, replaced, awaited, machines, destroys,
                   running>>

\* #destroyMachine for the VM of l, up to its kills.
Destroying(l, why) ==
    destroys' = destroys \cup {[owner |-> l, attempt |-> attempt[l],
                                slot |-> slot[l], for |-> why,
                                step |-> "killing"]}

Untrack(l) == tracked' = [tracked EXCEPT ![l] = FALSE]

\* A fault: the catch forgets the VM and destroys nothing.
RestoreFailsQuietly(l) ==
    /\ pc[l] = "restoring"
    /\ Untrack(l)
    /\ Goto(l, "failed")
    /\ UNCHANGED <<slots, attempt, slot, replaced, awaited, vm, probing, destroys,
                   running>>

\* A fault: the next attempt does not await the destroy of the last.
RestoreFailsAhead(l) ==
    /\ pc[l] = "restoring"
    /\ Untrack(l)
    /\ Destroying(l, "retry")
    /\ Goto(l, "claiming")
    /\ UNCHANGED <<slots, attempt, slot, replaced, awaited, vm, probing, running>>

\* A probe times out: the catch of restoreSession, which awaits the destroy.
RestoreFails(l) ==
    /\ pc[l] = "restoring"
    /\ Untrack(l)
    /\ Destroying(l, "retry")
    /\ Goto(l, "catching")
    /\ UNCHANGED <<slots, attempt, slot, replaced, awaited, vm, probing, running>>

VerifyPasses(l) ==
    /\ pc[l] \in {"verifying", "handing"}
    /\ vm[l]
    /\ Goto(l, IF pc[l] = "verifying" THEN "warm" ELSE "up")
    /\ UNCHANGED <<slots, attempt, slot, replaced, awaited, machines, destroys,
                   running>>

\* The catch of prepareWarmSession and of claimWarmSession.
VerifyFails(l) ==
    /\ pc[l] \in {"verifying", "handing"}
    /\ Untrack(l)
    /\ Destroying(l, "evict")
    /\ Goto(l, "failed")
    /\ UNCHANGED <<slots, attempt, slot, replaced, awaited, vm, probing, running>>

\* claimWarmSession: the VM leaves #warmSessionIds for the session asked for.
\* One whose process has exited is destroyed instead.
ClaimWarm(l) ==
    /\ pc[l] = "warm"
    /\ IF vm[l] THEN Goto(l, "handing") /\ UNCHANGED <<tracked, destroys>>
       ELSE Goto(l, "closed") /\ Untrack(l) /\ Destroying(l, "dead")
    /\ UNCHANGED <<slots, attempt, slot, replaced, awaited, vm, probing, running>>

\* revalidateWarmSessions sends a keep-alive probe to a warm VM ...
Probe(l) ==
    /\ Monitor
    /\ pc[l] = "warm"
    /\ ~probing[l]
    /\ probing' = [probing EXCEPT ![l] = TRUE]
    /\ UNCHANGED <<slots, launches, tracked, vm, destroys, running>>

ProbeAnswered(l) ==
    /\ probing[l]
    /\ vm[l]
    /\ probing' = [probing EXCEPT ![l] = FALSE]
    /\ UNCHANGED <<slots, launches, tracked, vm, destroys, running>>

\* ... and evicts it on a time-out.  The VM may be a session's by now: only
\* the entry under its warm id goes from #sessions.
ProbeFails(l) ==
    /\ probing[l]
    /\ probing' = [probing EXCEPT ![l] = FALSE]
    /\ IF pc[l] = "warm" THEN Untrack(l) /\ Goto(l, "closed")
                         ELSE UNCHANGED <<tracked, pc>>
    /\ Destroying(l, "keepalive")
    /\ UNCHANGED <<slots, attempt, slot, replaced, awaited, vm, running>>

\* terminateSession, for a session that ends or, from the monitor's
\* reconcileTrackedSessions, for one the agent does not list yet.
Terminate(l) ==
    /\ pc[l] = "up" \/ (Monitor /\ pc[l] \in {"restoring", "verifying", "handing"})
    /\ tracked[l]
    /\ Untrack(l)
    /\ Destroying(l, "terminate")
    /\ IF pc[l] = "up" THEN Goto(l, "closed") ELSE UNCHANGED pc
    /\ UNCHANGED <<slots, attempt, slot, replaced, awaited, vm, probing, running>>

\* The VM process exits by itself.
Exit(l) == /\ pc[l] \in {"warm", "up"}
           /\ vm[l]
           /\ vm' = [vm EXCEPT ![l] = FALSE]
           /\ UNCHANGED <<slots, launches, tracked, probing, destroys, running>>

(***************************************************************************)
(* #destroyMachine                                                         *)
(***************************************************************************)
\* Kill what has the VM's API socket and all that runs in its namespace.
Kill(d) == /\ d \in destroys
           /\ d.step = "killing"
           /\ KillIn(d.slot, {d.owner})
           /\ destroys' = (destroys \ {d}) \cup {[d EXCEPT !.step = "finishing"]}
           /\ UNCHANGED <<slots, launches, tracked, probing, running>>

\* A fault: one retry too many.
ResumeOnceMore(d) ==
    IF d.for = "retry" /\ pc[d.owner] = "catching"
    THEN \/ /\ attempt[d.owner] <= MaxAttempts
            /\ Goto(d.owner, "claiming")
            /\ attempt' = [attempt EXCEPT ![d.owner] = @ + 1]
         \/ Goto(d.owner, "failed") /\ UNCHANGED attempt
    ELSE UNCHANGED <<pc, attempt>>

\* Who awaited the destroy goes on: restoreSession retries or gives up.
Resume(d) ==
    IF d.for = "retry" /\ pc[d.owner] = "catching"
    THEN \/ /\ attempt[d.owner] < MaxAttempts
            /\ Goto(d.owner, "claiming")
            /\ attempt' = [attempt EXCEPT ![d.owner] = @ + 1]
         \/ Goto(d.owner, "failed") /\ UNCHANGED attempt
    ELSE UNCHANGED <<pc, attempt>>

\* With skipSlotValidation the slot is released as it is, and an eviction then
\* marks it unhealthy; without, the slot is checked first.
Finish(d) ==
    /\ d \in destroys
    /\ d.step = "finishing"
    /\ destroys' = destroys \ {d}
    /\ CASE d.for = "terminate" -> ReleaseSlot(d.slot)
         [] d.for \in {"evict", "keepalive"} -> MarkUnhealthy(d.slot)
         [] d.for \in {"retry", "dead"} -> ReleaseSlot(d.slot) \/ MarkUnhealthy(d.slot)
    /\ Resume(d)
    /\ UNCHANGED <<slot, replaced, awaited, machines, running>>

LaunchStep(l) ==
    \/ TakeSlot(l) \/ AwaitRebuilds(l) \/ NoSlot(l)
    \/ CheckPasses(l) \/ CheckFails(l)
    \/ Spawn(l) \/ SpawnFails(l)
    \/ Restored(l) \/ RestoreFails(l) \/ VerifyPasses(l) \/ VerifyFails(l)

RebuildStep(s) == RebuildSucceeds(s) \/ RebuildFails(s)

DestroyStep(l) == \E d \in destroys : d.owner = l /\ (Kill(d) \/ Finish(d))

Next ==
    /\ running
    /\ \/ \E l \in Launch :
            \/ BeginLaunch(l) \/ LaunchStep(l) \/ DestroyStep(l)
            \/ ClaimWarm(l) \/ Probe(l) \/ ProbeAnswered(l) \/ ProbeFails(l)
            \/ Terminate(l) \/ Exit(l)
       \/ \E s \in Slot : RebuildStep(s)

Spec == Init /\ [][Next]_vars

\* Every probe and every command run on the host comes back or times out.
FairSpec == /\ Spec
            /\ \A l \in Launch : /\ WF_vars(running /\ LaunchStep(l))
                                 /\ WF_vars(running /\ DestroyStep(l))
            /\ \A s \in Slot : WF_vars(running /\ RebuildStep(s))

(***************************************************************************)
(* Properties                                                              *)
(***************************************************************************)
\* l has the use of slot s: from the reservation to the end of the destroys.
Holds(l, s) ==
    \/ /\ slot[l] = s
       /\ \/ pc[l] \in {"prelaunch", "restoring", "verifying", "handing", "warm"}
          \/ pc[l] = "up" /\ tracked[l]
    \/ \E d \in destroys : d.owner = l /\ d.slot = s

\* No two launches have the use of one slot, so no clean-up of a slot kills
\* another session's VM (docs/firecracker-scaling-analysis.md: sessions are
\* "isolated via per-microVM host network namespaces").
SlotsAreExclusive ==
    \A s \in Slot : \A k, l \in Launch : Holds(k, s) /\ Holds(l, s) => k = l

\* No slot leaks and none is given back early, on any path out of a launch: a
\* slot is reserved exactly while someone has the use of it, and a free one is
\* on the list, once, or in the hands of one launch that checks it.
SlotsAreAccounted ==
    /\ running => \A s \in Slot :
                    (state[s] = "reserved") <=> \E l \in Launch : Holds(l, s)
    /\ IsInjective(free)
    /\ \A s \in ToSet(free) : state[s] = "free"
    /\ \A s \in Slot : state[s] = "free" /\ s \notin ToSet(free) =>
          Cardinality({l \in Launch : pc[l] = "checking" /\ slot[l] = s}) = 1

\* The slot l has the use of, and how far its VM is: alive wherever it is alive
\* and nothing is killing it.
Place(l) == IF \E s \in Slot : Holds(l, s) THEN CHOOSE s \in Slot : Holds(l, s)
                                            ELSE None

DestroyIs(l, step) == \E d \in destroys : d.owner = l /\ d.step = step

Life(l) == IF DestroyIs(l, "killing") THEN "clearing"
           ELSE IF vm[l] THEN "alive"
           ELSE IF DestroyIs(l, "finishing") THEN "cleared"
           ELSE IF Place(l) = None THEN "out"
           ELSE IF pc[l] = "prelaunch" THEN "placed" ELSE "exited"

Isolated == INSTANCE IsolatedVMs
              WITH place <- [l \in Launch |-> Place(l)],
                   life <- [l \in Launch |-> Life(l)],
                   repair <- {s \in Slot : state[s] \in {"unhealthy", "rebuilding"}},
                   Nowhere <- None

\* A launch has one slot to itself, and what it does to a slot, its clean-ups
\* and rebuilds included, never touches the VM of another.  (Isolated!Spec; TLC
\* is spared the mapping on steps that change nothing here.)
ImplementsIsolatedVMs ==
    Isolated!Init /\ [][UNCHANGED vars \/ Isolated!Next]_(Isolated!vars)

\* A launch comes back with a VM or an error, unless the agent dies.
LaunchesReturn ==
    \A l \in Launch : pc[l] \in InFlight ~> (pc[l] \notin InFlight \/ ~running)

\* A VM whose launch failed or whose session ended does not stay behind.
VMsAreReaped ==
    \A l \in Launch : (vm[l] /\ pc[l] \in {"failed", "closed"}) ~> (~vm[l] \/ ~running)
=============================================================================
