------------------------------ MODULE Snapshots ------------------------------
(***************************************************************************)
(* The snapshots microVMs are restored from, as the node agent builds and  *)
(* uses them (src/node-agent/firecracker.ts).  There is one for direct     *)
(* sessions, made sure of before the agent serves, and one for sessions    *)
(* behind a proxy, built on demand by the first of them.  A snapshot is    *)
(* three files, which outlive the agent.                                   *)
(***************************************************************************)
EXTENDS Integers

CONSTANTS Target, BaseTarget,    \* snapshots; the one of direct sessions
          Restore, TargetOf,     \* launches; the snapshot a launch needs
          MaxBuilds              \* builds in all (a bound)

\* snapshotTargetForProxyConfig knows two: there is only one on demand.
ASSUME SnapshotsAssumption == /\ BaseTarget \in Target
                              /\ \A s, t \in Target \ {BaseTarget} : s = t
                              /\ TargetOf \in [Restore -> Target]
                              /\ MaxBuilds \in Nat

VARIABLES
    phase,     \* "down", "preparing" or "serving"
    disk,      \* disk[t]: who wrote the files of t
    builds,    \* createBaseSnapshot calls under way
    built,     \* how many have begun
    promise,   \* #snapshotPreparePromise: the build it stands for, or 0
    restore    \* restore[l]: restoreSession of launch l

snapVars == <<phase, disk, builds, built, promise, restore>>

Absent == 0
Torn == -1      \* being written, or left half-written
Content == {Absent, Torn} \cup 1..MaxBuilds

Step == {"boot", "state", "memory", "metadata"}

SnapTypeOK ==
    /\ phase \in {"down", "preparing", "serving"}
    /\ disk \in [Target -> [state : Content, memory : Content, metadata : Content]]
    /\ builds \subseteq [n : 1..MaxBuilds, target : Target, step : Step]
    /\ built \in 0..MaxBuilds
    /\ promise \in 0..MaxBuilds
    /\ restore \in [Restore -> [step : {"idle", "waiting", "loading", "up"},
                                on : 0..MaxBuilds, state : Content, memory : Content]]

NotYet == [step |-> "idle", on |-> 0, state |-> Absent, memory |-> Absent]

SnapInit == /\ phase = "down"
            /\ disk = [t \in Target |-> [state |-> Absent, memory |-> Absent,
                                         metadata |-> Absent]]
            /\ builds = {}
            /\ built = 0
            /\ promise = 0
            /\ restore = [l \in Restore |-> NotYet]

\* snapshotExists
SnapshotExists(t) == /\ disk[t].state # Absent
                     /\ disk[t].memory # Absent
                     /\ disk[t].metadata # Absent

\* #ensureSnapshot for a snapshot that is not there: one build at a time,
\* whatever its target, others wait for the one under way.
EnsureSnapshot(t) ==
    \/ promise # 0 /\ promise' = promise
    \/ promise = 0 /\ promise' = built + 1

Begin(t) == IF promise' = promise THEN UNCHANGED <<builds, built>>
            ELSE /\ built < MaxBuilds
                 /\ built' = built + 1
                 /\ builds' = builds \cup {[n |-> built + 1, target |-> t, step |-> "boot"]}

\* prepareRuntimeMode, after the clean-up of what the life before left.
AgentStarts ==
    /\ phase = "down"
    /\ IF SnapshotExists(BaseTarget)
       THEN phase' = "serving" /\ UNCHANGED <<builds, built, promise>>
       ELSE phase' = "preparing" /\ EnsureSnapshot(BaseTarget) /\ Begin(BaseTarget)
    /\ UNCHANGED <<disk, restore>>

\* The agent, and with it every Firecracker process, is killed.
AgentKilled ==
    /\ phase # "down"
    /\ phase' = "down"
    /\ builds' = {}
    /\ promise' = 0
    /\ restore' = [l \in Restore |-> NotYet]
    /\ UNCHANGED <<disk, built>>

\* restoreSession up to its first await.
RestoreBegins(l) ==
    /\ phase = "serving" /\ restore[l].step = "idle"
    /\ IF SnapshotExists(TargetOf[l])
       THEN /\ restore' = [restore EXCEPT ![l].step = "loading"]
            /\ UNCHANGED <<builds, built, promise>>
       ELSE /\ EnsureSnapshot(TargetOf[l]) /\ Begin(TargetOf[l])
            /\ restore' = [restore EXCEPT ![l].step = "waiting", ![l].on = promise']
    /\ UNCHANGED <<phase, disk>>

\* #restoreFromSnapshot: the VM loads what the files have now, if they are there.
RestoreLoads(l) ==
    /\ restore[l].step = "loading"
    /\ LET d == disk[TargetOf[l]]
       IN  /\ d.state # Absent /\ d.memory # Absent
           /\ restore' = [restore EXCEPT ![l] = [step |-> "up", on |-> 0,
                                  state |-> d.state, memory |-> d.memory]]
    /\ UNCHANGED <<phase, disk, builds, built, promise>>

\* It fails, or the session ends.
RestoreOver(l) ==
    /\ restore[l].step \in {"loading", "up"}
    /\ restore' = [restore EXCEPT ![l] = NotYet]
    /\ UNCHANGED <<phase, disk, builds, built, promise>>

(***************************************************************************)
(* createBaseSnapshot                                                      *)
(***************************************************************************)
At(b, step) == builds' = (builds \ {b}) \cup {[b EXCEPT !.step = step]}

\* The VM has booted and warmed up, is paused, and its state is written.
WritesState(b) ==
    /\ b.step = "boot"
    /\ disk' = [disk EXCEPT ![b.target].state = Torn]
    /\ At(b, "state")
    /\ UNCHANGED <<phase, built, promise, restore>>

WritesMemory(b) ==
    /\ b.step = "state"
    /\ disk' = [disk EXCEPT ![b.target].state = b.n, ![b.target].memory = Torn]
    /\ At(b, "memory")
    /\ UNCHANGED <<phase, built, promise, restore>>

\* PUT /snapshot/create answers; the VM is resumed.
Resumes(b) ==
    /\ b.step = "memory"
    /\ disk' = [disk EXCEPT ![b.target].memory = b.n]
    /\ At(b, "metadata")
    /\ UNCHANGED <<phase, built, promise, restore>>

\* The promise settles: waiters go on to load, or throw.
Settle(b, ok) ==
    /\ builds' = builds \ {b}
    /\ promise' = IF promise = b.n THEN 0 ELSE promise
    /\ restore' = [l \in Restore |->
         IF restore[l].step = "waiting" /\ restore[l].on = b.n
         THEN IF ok THEN [NotYet EXCEPT !.step = "loading"] ELSE NotYet
         ELSE restore[l]]
    /\ phase' = IF phase = "preparing" THEN IF ok THEN "serving" ELSE "down"
                ELSE phase
    /\ UNCHANGED built

\* A fault: metadata.json is written while the memory still is.
MetadataFirst(b) ==
    /\ b.step \in {"memory", "metadata"}
    /\ disk' = [disk EXCEPT ![b.target].metadata = b.n]
    /\ Settle(b, TRUE)

\* metadata.json is written last, and the snapshot is there, even if the VM it
\* was taken of cannot be destroyed.
WritesMetadata(b) ==
    /\ b.step = "metadata"
    /\ disk' = [disk EXCEPT ![b.target].metadata = b.n]
    /\ \E ok \in BOOLEAN : Settle(b, ok)

\* Any step before may throw; the files stay as they are.
BuildFails(b) == UNCHANGED disk /\ Settle(b, FALSE)

SnapNext ==
    \/ AgentStarts \/ AgentKilled
    \/ \E l \in Restore : RestoreBegins(l) \/ RestoreLoads(l) \/ RestoreOver(l)
    \/ \E b \in builds : \/ WritesState(b) \/ WritesMemory(b) \/ Resumes(b)
                         \/ WritesMetadata(b) \/ BuildFails(b)

SnapSpec == SnapInit /\ [][SnapNext]_snapVars

(***************************************************************************)
(* Properties                                                              *)
(***************************************************************************)
\* However launches, failed builds and deaths of the agent interleave, no VM
\* is restored from files of two builds or from a half-written one: a snapshot
\* counts as there only once its last file is written, and no second build
\* writes the files of one that counts as there.
RestoresAreWhole ==
    \A l \in Restore :
      restore[l].step = "up" =>
        restore[l].state = restore[l].memory /\ restore[l].state > 0
=============================================================================
