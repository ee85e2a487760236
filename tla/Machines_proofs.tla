--------------------------- MODULE Machines_proofs ----------------------------
(***************************************************************************)
(* Proofs about what a host is made of, for every value of the constants:  *)
(* the snapshots its VMs are restored from, its namespaces and processes,  *)
(* the containers of the Docker driver, the CPU of its VMs, and the proxy  *)
(* and the relay that stand beside them. Each section stands for itself.   *)
(***************************************************************************)
EXTENDS Snapshots, HostResources, ContainerAgent, CpuPolicy, EgressProxy, DebugRelay,
        ListLemmas

-------------------------------------------------------------------------------
(***************************************************************************)
(* Snapshots. For any launches: a VM is restored from the files of one     *)
(* build.  Two facts carry this.  A snapshot that counts as there is       *)
(* whole, and is not being built.  And the shared promise, which does not  *)
(* say what it builds, is only ever waited for by launches that need just  *)
(* that: launches begin once the base snapshot is there, and there is only *)
(* one other.                                                              *)
(***************************************************************************)
IsThere(t) == disk[t].metadata # Absent

Whole(t) == disk[t].state = disk[t].memory /\ disk[t].state > 0

\* What a build has written so far; its last file comes when it is over.
Wrote(b) == /\ disk[b.target].metadata = Absent
            /\ b.step \in {"memory", "metadata"} => disk[b.target].state = b.n
            /\ b.step = "metadata" => disk[b.target].memory = b.n

OneBuild == /\ promise = 0 <=> builds = {}
            /\ \A b \in builds : b.n = promise
            /\ \A b, c \in builds : b = c

\* A launch that waits, and the build it waits for.
AwaitsIts(l) == \E b \in builds : b.n = restore[l].on /\ b.target = TargetOf[l]

SnapInv ==
    /\ SnapTypeOK
    /\ OneBuild
    /\ \A t \in Target : IsThere(t) => Whole(t)
    /\ \A b \in builds : Wrote(b)
    /\ phase = "down" => builds = {}
    /\ phase = "preparing" => \A b \in builds : b.target = BaseTarget
    /\ phase = "serving" => IsThere(BaseTarget)
    /\ phase # "serving" => \A l \in Restore : restore[l].step = "idle"
    /\ \A l \in Restore : restore[l].step = "waiting" => AwaitsIts(l)
    /\ \A l \in Restore : restore[l].step = "loading" => IsThere(TargetOf[l])
    /\ RestoresAreWhole
-------------------------------------------------------------------------------
LEMMA Numbers == /\ MaxBuilds \in Nat
                 /\ Absent = 0 /\ Torn = -1
                 /\ 0 \in Content /\ Absent \in Content /\ Torn \in Content
                 /\ 1..MaxBuilds \subseteq Content /\ Content \subseteq Int
  BY SnapshotsAssumption DEF Content, Absent, Torn

\* A snapshot is seen exactly when its last file is there.
LEMMA ThereIsExists ==
  ASSUME SnapInv, NEW t \in Target
  PROVE  SnapshotExists(t) <=> IsThere(t)
  BY Numbers DEF SnapInv, SnapTypeOK, SnapshotExists, IsThere, Whole

\* Whoever asks while the agent serves, and finds its snapshot missing, needs
\* the one that is being built, if any is.
LEMMA AskersNeedThatBuild ==
  ASSUME SnapInv, phase = "serving", NEW l \in Restore,
         ~IsThere(TargetOf[l]), NEW b \in builds
  PROVE  b.target = TargetOf[l]
  <1>1. b.target \in Target /\ TargetOf[l] \in Target
    BY SnapshotsAssumption DEF SnapInv, SnapTypeOK
  <1>2. ~IsThere(b.target) /\ IsThere(BaseTarget)
    BY DEF SnapInv, Wrote, IsThere
  <1> QED BY <1>1, <1>2, SnapshotsAssumption

LEMMA TheBuild ==
  ASSUME SnapInv, NEW b \in builds
  PROVE  /\ builds = {b} /\ promise = b.n /\ promise # 0
         /\ b \in [n : 1..MaxBuilds, target : Target, step : Step]
         /\ ~IsThere(b.target)
         /\ phase # "down"
         /\ phase = "preparing" => b.target = BaseTarget
  <1>1. b \in [n : 1..MaxBuilds, target : Target, step : Step]
    BY DEF SnapInv, SnapTypeOK
  <1>2. promise = b.n /\ builds = {b}
    BY DEF SnapInv, OneBuild
  <1>3. b.n # 0
    BY <1>1, Numbers
  <1> QED BY <1>1, <1>2, <1>3 DEF SnapInv, Wrote, IsThere

-------------------------------------------------------------------------------
LEMMA SnapInvInit == SnapInit => SnapInv
  <1> SUFFICES ASSUME SnapInit PROVE SnapInv
    OBVIOUS
  <1>1. SnapTypeOK
    BY Numbers DEF SnapInit, SnapTypeOK, NotYet
  <1>2. \A l \in Restore : restore[l].step = "idle"
    BY DEF SnapInit, NotYet
  <1> QED BY <1>1, <1>2 DEF SnapInit, SnapInv, OneBuild, IsThere, RestoresAreWhole

\* EnsureSnapshot with no build under way.
LEMMA BeginsFirst ==
  ASSUME SnapInv, promise = 0, NEW t \in Target, ~IsThere(t),
         EnsureSnapshot(t), Begin(t), disk' = disk
  PROVE  \E b \in [n : 1..MaxBuilds, target : Target, step : Step] :
           /\ builds' = {b} /\ promise' = b.n /\ b.target = t /\ b.step = "boot"
           /\ built' \in 0..MaxBuilds /\ promise' \in 1..MaxBuilds
           /\ OneBuild' /\ Wrote(b)'
  <1>1. built \in 0..MaxBuilds /\ MaxBuilds \in Nat
    BY Numbers DEF SnapInv, SnapTypeOK
  <1>2. promise' = built + 1 /\ promise' # promise
    BY <1>1 DEF EnsureSnapshot
  <1>3. /\ built < MaxBuilds /\ built' = built + 1
        /\ builds' = builds \cup {[n |-> built + 1, target |-> t, step |-> "boot"]}
    BY <1>2 DEF Begin
  <1>4. PICK b \in [n : 1..MaxBuilds, target : Target, step : Step] :
               b = [n |-> built + 1, target |-> t, step |-> "boot"]
    <2>1. built + 1 \in 1..MaxBuilds /\ "boot" \in Step
      BY <1>1, <1>3 DEF Step
    <2>2. [n |-> built + 1, target |-> t, step |-> "boot"]
            \in [n : 1..MaxBuilds, target : Target, step : Step]
      BY <2>1
    <2> QED BY <2>2
  <1>5. b.n = built + 1 /\ b.target = t /\ b.step = "boot"
    BY <1>4
  <1>6. builds' = {b}
    <2>1. builds = {}
      BY DEF SnapInv, OneBuild
    <2> QED BY <1>3, <1>4, <2>1
  <1>7. built' \in 0..MaxBuilds /\ promise' \in 1..MaxBuilds
    BY <1>1, <1>2, <1>3
  <1>8. OneBuild'
    BY <1>1, <1>2, <1>5, <1>6 DEF OneBuild
  <1>9. Wrote(b)'
    BY <1>5 DEF Wrote, IsThere
  <1> QED BY <1>2, <1>5, <1>6, <1>7, <1>8, <1>9

LEMMA AgentStartsPreserves == ASSUME SnapInv, AgentStarts PROVE SnapInv'
  <1>1. /\ phase = "down" /\ disk' = disk /\ restore' = restore /\ builds = {}
        /\ promise = 0 /\ \A l \in Restore : restore[l].step = "idle"
    BY DEF AgentStarts, SnapInv, OneBuild
  <1>2. CASE SnapshotExists(BaseTarget)
    <2>1. phase' = "serving" /\ UNCHANGED <<builds, built, promise>>
      BY <1>2 DEF AgentStarts
    <2>2. IsThere(BaseTarget)
      BY <1>2, ThereIsExists, SnapshotsAssumption
    <2> QED BY <1>1, <2>1, <2>2
            DEF SnapInv, SnapTypeOK, OneBuild, IsThere, Whole, RestoresAreWhole
  <1>3. CASE ~SnapshotExists(BaseTarget)
    <2>1. phase' = "preparing" /\ EnsureSnapshot(BaseTarget) /\ Begin(BaseTarget)
      BY <1>3 DEF AgentStarts
    <2>2. ~IsThere(BaseTarget)
      BY <1>3, ThereIsExists, SnapshotsAssumption
    <2>3. PICK b \in [n : 1..MaxBuilds, target : Target, step : Step] :
            /\ builds' = {b} /\ promise' = b.n /\ b.target = BaseTarget
            /\ built' \in 0..MaxBuilds /\ promise' \in 1..MaxBuilds
            /\ OneBuild' /\ Wrote(b)'
      BY <1>1, <2>1, <2>2, BeginsFirst, SnapshotsAssumption
    <2>4. SnapTypeOK'
      BY <1>1, <2>1, <2>3 DEF SnapInv, SnapTypeOK
    <2> QED BY <1>1, <2>1, <2>3, <2>4
            DEF SnapInv, IsThere, Whole, RestoresAreWhole
  <1> QED BY <1>2, <1>3

LEMMA AgentKilledPreserves == ASSUME SnapInv, AgentKilled PROVE SnapInv'
  <1>1. /\ phase' = "down" /\ builds' = {} /\ promise' = 0
        /\ disk' = disk /\ built' = built
        /\ restore' = [l \in Restore |-> NotYet]
    BY DEF AgentKilled
  <1>2. \A l \in Restore : restore'[l].step = "idle"
    BY <1>1 DEF NotYet
  <1>3. SnapTypeOK'
    BY <1>1, Numbers DEF SnapInv, SnapTypeOK, NotYet
  <1> QED BY <1>1, <1>2, <1>3 DEF SnapInv, OneBuild, IsThere, Whole, RestoresAreWhole

\* What a step on one launch must see to, when the snapshots stay as they are.
LEMMA LaunchMoves ==
  ASSUME SnapInv, phase = "serving", NEW l \in Restore, NEW r,
         UNCHANGED <<phase, disk>>, SnapTypeOK', OneBuild',
         \A b \in builds' : Wrote(b)', builds \subseteq builds',
         restore' = [restore EXCEPT ![l] = r],
         r.step = "waiting" => \E b \in builds' : b.n = r.on /\ b.target = TargetOf[l],
         r.step = "loading" => IsThere(TargetOf[l]),
         r.step = "up" => r.state = r.memory /\ r.state > 0
  PROVE  SnapInv'
  <1>1. restore'[l] = r /\ \A m \in Restore \ {l} : restore'[m] = restore[m]
    BY DEF SnapInv, SnapTypeOK
  <1>2. \A m \in Restore : restore'[m].step = "waiting" => AwaitsIts(m)'
    BY <1>1 DEF SnapInv, AwaitsIts
  <1>3. \A m \in Restore : restore'[m].step = "loading" => IsThere(TargetOf[m])'
    BY <1>1 DEF SnapInv, IsThere
  <1>4. RestoresAreWhole'
    BY <1>1 DEF SnapInv, RestoresAreWhole
  <1>5. /\ IsThere(BaseTarget)'
        /\ \A t \in Target : IsThere(t)' => Whole(t)'
    BY DEF SnapInv, IsThere, Whole
  <1> QED BY <1>2, <1>3, <1>4, <1>5 DEF SnapInv

LEMMA RestoreBeginsPreserves ==
  ASSUME SnapInv, NEW l \in Restore, RestoreBegins(l) PROVE SnapInv'
  <1>1. /\ phase = "serving" /\ UNCHANGED <<phase, disk>>
        /\ TargetOf[l] \in Target
    BY SnapshotsAssumption DEF RestoreBegins
  <1>2. CASE SnapshotExists(TargetOf[l])
    <2> DEFINE r == [restore[l] EXCEPT !.step = "loading"]
    <2>1. /\ restore' = [restore EXCEPT ![l] = r]
          /\ UNCHANGED <<builds, built, promise>>
      BY <1>2 DEF RestoreBegins, SnapInv, SnapTypeOK
    <2>2. SnapTypeOK' /\ r.step = "loading"
      BY <1>1, <2>1 DEF SnapInv, SnapTypeOK
    <2>3. OneBuild' /\ \A b \in builds' : Wrote(b)'
      BY <1>1, <2>1 DEF SnapInv, OneBuild, Wrote
    <2>4. IsThere(TargetOf[l])
      BY <1>1, <1>2, ThereIsExists
    <2> HIDE DEF r
    <2> QED BY <1>1, <2>1, <2>2, <2>3, <2>4, LaunchMoves
  <1>3. CASE ~SnapshotExists(TargetOf[l])
    <2> DEFINE r == [restore[l] EXCEPT !.step = "waiting", !.on = promise']
    <2>1. /\ restore' = [restore EXCEPT ![l] = r]
          /\ EnsureSnapshot(TargetOf[l]) /\ Begin(TargetOf[l])
      BY <1>3 DEF RestoreBegins, SnapInv, SnapTypeOK
    <2>2. ~IsThere(TargetOf[l])
      BY <1>1, <1>3, ThereIsExists
    <2>3. /\ OneBuild' /\ \A b \in builds' : Wrote(b)'
          /\ builds \subseteq builds'
          /\ builds' \subseteq [n : 1..MaxBuilds, target : Target, step : Step]
          /\ built' \in 0..MaxBuilds /\ promise' \in 0..MaxBuilds
          /\ \E b \in builds' : b.n = promise' /\ b.target = TargetOf[l]
      <3>1. CASE promise = 0
        BY <1>1, <2>1, <2>2, <3>1, BeginsFirst DEF SnapInv, OneBuild
      <3>2. CASE promise # 0
        <4>1. UNCHANGED <<promise, builds, built>>
          BY <2>1, <3>2 DEF EnsureSnapshot, Begin
        <4>2. PICK b \in builds : b.n = promise
          BY <3>2 DEF SnapInv, OneBuild
        <4>3. b.target = TargetOf[l]
          BY <1>1, <2>2, AskersNeedThatBuild
        <4> QED BY <1>1, <4>1, <4>2, <4>3 DEF SnapInv, SnapTypeOK, OneBuild, Wrote
      <3> QED BY <3>1, <3>2
    <2>4. SnapTypeOK'
      BY <1>1, <2>1, <2>3 DEF SnapInv, SnapTypeOK
    <2>5. r.step = "waiting" /\ r.on = promise'
      BY DEF SnapInv, SnapTypeOK
    <2> HIDE DEF r
    <2> QED BY <1>1, <2>1, <2>3, <2>4, <2>5, LaunchMoves
  <1> QED BY <1>2, <1>3

LEMMA RestoreLoadsPreserves ==
  ASSUME SnapInv, NEW l \in Restore, RestoreLoads(l) PROVE SnapInv'
  <1> DEFINE d == disk[TargetOf[l]]
             r == [step |-> "up", on |-> 0, state |-> d.state, memory |-> d.memory]
  <1>1. /\ restore' = [restore EXCEPT ![l] = r] /\ restore[l].step = "loading"
        /\ UNCHANGED <<phase, disk, builds, built, promise>>
    BY DEF RestoreLoads
  <1>2. phase = "serving"
    BY <1>1 DEF SnapInv
  <1>3. d.state = d.memory /\ d.state > 0 /\ TargetOf[l] \in Target
    BY <1>1, SnapshotsAssumption DEF SnapInv, Whole
  <1>4. SnapTypeOK'
    <2>1. d.state \in Content /\ d.memory \in Content /\ 0 \in 0..MaxBuilds
      BY <1>3, Numbers DEF SnapInv, SnapTypeOK
    <2> QED BY <1>1, <2>1 DEF SnapInv, SnapTypeOK
  <1>5. OneBuild' /\ \A b \in builds' : Wrote(b)'
    BY <1>1 DEF SnapInv, OneBuild, Wrote
  <1>6. r.step = "up" /\ r.state = r.memory /\ r.state > 0
    BY <1>3
  <1> HIDE DEF r
  <1> QED BY <1>1, <1>2, <1>4, <1>5, <1>6, LaunchMoves

LEMMA RestoreOverPreserves ==
  ASSUME SnapInv, NEW l \in Restore, RestoreOver(l) PROVE SnapInv'
  <1>1. /\ restore' = [restore EXCEPT ![l] = NotYet]
        /\ restore[l].step \in {"loading", "up"}
        /\ UNCHANGED <<phase, disk, builds, built, promise>>
    BY DEF RestoreOver
  <1>2. phase = "serving"
    BY <1>1 DEF SnapInv
  <1>3. SnapTypeOK'
    BY <1>1, Numbers DEF SnapInv, SnapTypeOK, NotYet
  <1>4. OneBuild' /\ \A b \in builds' : Wrote(b)'
    BY <1>1 DEF SnapInv, OneBuild, Wrote
  <1>5. NotYet.step = "idle"
    BY DEF NotYet
  <1> QED BY <1>1, <1>2, <1>3, <1>4, <1>5, LaunchMoves

-------------------------------------------------------------------------------
\* A build that goes on writes only files of a snapshot that is not there yet.
LEMMA BuildMoves ==
  ASSUME SnapInv, NEW b \in builds, NEW step \in Step, At(b, step),
         UNCHANGED <<phase, built, promise, restore>>,
         disk' \in [Target -> [state : Content, memory : Content, metadata : Content]],
         \A t \in Target \ {b.target} : disk'[t] = disk[t],
         disk'[b.target].metadata = disk[b.target].metadata,
         step \in {"memory", "metadata"} => disk'[b.target].state = b.n,
         step = "metadata" => disk'[b.target].memory = b.n
  PROVE  SnapInv'
  <1> DEFINE c == [b EXCEPT !.step = step]
  <1>1. /\ builds = {b} /\ promise = b.n /\ promise # 0 /\ ~IsThere(b.target)
        /\ b \in [n : 1..MaxBuilds, target : Target, step : Step] /\ phase # "down"
        /\ phase = "preparing" => b.target = BaseTarget
    BY TheBuild
  <1>2. builds' = {c}
    BY <1>1 DEF At
  <1>3. /\ c \in [n : 1..MaxBuilds, target : Target, step : Step]
        /\ c.n = b.n /\ c.target = b.target /\ c.step = step
    BY <1>1
  <1> HIDE DEF c
  <1>4. SnapTypeOK'
    BY <1>2, <1>3 DEF SnapInv, SnapTypeOK
  <1>5. OneBuild'
    BY <1>1, <1>2, <1>3 DEF OneBuild
  <1>6. Wrote(c)'
    BY <1>1, <1>3 DEF Wrote, IsThere
  <1>7. \A t \in Target : /\ IsThere(t)' <=> IsThere(t)
                         /\ IsThere(t) => Whole(t)'
    BY <1>1 DEF SnapInv, IsThere, Whole
  <1>8. \A l \in Restore : restore'[l].step = "waiting" => AwaitsIts(l)'
    BY <1>1, <1>2, <1>3 DEF SnapInv, AwaitsIts
  <1>9. \A l \in Restore : restore'[l].step = "loading" => IsThere(TargetOf[l])'
    <2>1. restore' = restore /\ \A l \in Restore : TargetOf[l] \in Target
      BY SnapshotsAssumption
    <2> QED BY <1>7, <2>1 DEF SnapInv, IsThere
  <1>10. phase' = "serving" => IsThere(BaseTarget)'
    BY <1>7, SnapshotsAssumption DEF SnapInv, IsThere
  <1>11. RestoresAreWhole'
    BY DEF SnapInv, RestoresAreWhole
  <1>12. /\ \A x \in builds' : Wrote(x)'
         /\ \A t \in Target : IsThere(t)' => Whole(t)'
    BY <1>2, <1>6, <1>7 DEF Wrote, IsThere, Whole
  <1>13. phase' # "serving" => \A l \in Restore : restore'[l].step = "idle"
    BY DEF SnapInv
  <1> QED BY <1>1, <1>2, <1>3, <1>4, <1>5, <1>8, <1>9, <1>10, <1>11, <1>12, <1>13
          DEF SnapInv

\* The end of a build, whether it left the snapshot there, and whether its
\* promise resolves, which it does only if it did.
LEMMA SettlePreserves ==
  ASSUME SnapInv, NEW b \in builds, NEW ok \in BOOLEAN, Settle(b, ok),
         disk' \in [Target -> [state : Content, memory : Content, metadata : Content]],
         \A t \in Target : IsThere(t) => disk'[t] = disk[t],
         \A t \in Target : IsThere(t)' => Whole(t)',
         ok => IsThere(b.target)'
  PROVE  SnapInv'
  <1>1. /\ builds = {b} /\ promise = b.n /\ b.target \in Target /\ phase # "down"
        /\ phase = "preparing" => b.target = BaseTarget
    BY TheBuild
  <1>2. builds' = {} /\ promise' = 0 /\ built' = built
    BY <1>1 DEF Settle
  <1>3. phase' = IF phase = "preparing" THEN IF ok THEN "serving" ELSE "down"
                 ELSE phase
    BY DEF Settle
  <1>4. \A l \in Restore :
          restore'[l] = IF restore[l].step = "waiting" /\ restore[l].on = b.n
                        THEN IF ok THEN [NotYet EXCEPT !.step = "loading"] ELSE NotYet
                        ELSE restore[l]
    BY DEF Settle
  <1>5. \A t \in Target : IsThere(t) => IsThere(t)'
    BY DEF IsThere
  <1>6. \A l \in Restore :
          restore[l].step = "waiting" => restore[l].on = b.n /\ b.target = TargetOf[l]
    BY <1>1 DEF SnapInv, AwaitsIts
  <1>7. NotYet.step = "idle" /\ [NotYet EXCEPT !.step = "loading"].step = "loading"
    BY DEF NotYet
  <1>8. \A l \in Restore : /\ restore'[l].step # "waiting"
                           /\ restore'[l].step = "loading" => IsThere(TargetOf[l])'
    <2> SUFFICES ASSUME NEW l \in Restore
                 PROVE  /\ restore'[l].step # "waiting"
                        /\ restore'[l].step = "loading" => IsThere(TargetOf[l])'
      OBVIOUS
    <2>1. CASE restore[l].step = "waiting"
      BY <1>4, <1>6, <1>7, <2>1
    <2>2. CASE restore[l].step # "waiting"
      BY <1>4, <1>5, <2>2, SnapshotsAssumption DEF SnapInv
    <2> QED BY <2>1, <2>2
  <1>9. RestoresAreWhole'
    BY <1>4, <1>7 DEF SnapInv, RestoresAreWhole
  <1>10. phase' # "serving" => \A l \in Restore : restore'[l].step = "idle"
    BY <1>1, <1>3, <1>4, <1>7 DEF SnapInv
  <1>11. phase' = "serving" => IsThere(BaseTarget)'
    <2>1. phase \in {"down", "preparing", "serving"}
      BY DEF SnapInv, SnapTypeOK
    <2> QED BY <1>1, <1>3, <1>5, <2>1, SnapshotsAssumption DEF SnapInv
  <1>12. SnapTypeOK'
    <2>1. NotYet \in [step : {"idle", "waiting", "loading", "up"}, on : 0..MaxBuilds,
                      state : Content, memory : Content]
      BY Numbers DEF NotYet
    <2>2. [NotYet EXCEPT !.step = "loading"]
            \in [step : {"idle", "waiting", "loading", "up"}, on : 0..MaxBuilds,
                 state : Content, memory : Content]
      BY Numbers DEF NotYet
    <2>3. restore' \in [Restore -> [step : {"idle", "waiting", "loading", "up"},
                                    on : 0..MaxBuilds, state : Content, memory : Content]]
      BY <2>1, <2>2 DEF Settle, SnapInv, SnapTypeOK
    <2>4. phase' \in {"down", "preparing", "serving"}
      BY <1>3 DEF SnapInv, SnapTypeOK
    <2>5. promise' \in 0..MaxBuilds
      BY <1>2, Numbers
    <2> QED BY <1>2, <2>3, <2>4, <2>5 DEF SnapInv, SnapTypeOK
  <1>13. OneBuild'
    BY <1>2 DEF OneBuild
  <1> QED BY <1>2, <1>8, <1>9, <1>10, <1>11, <1>12, <1>13 DEF SnapInv

LEMMA BuildPreserves ==
  ASSUME SnapInv, NEW b \in builds,
         \/ WritesState(b) \/ WritesMemory(b) \/ Resumes(b)
         \/ WritesMetadata(b) \/ BuildFails(b)
  PROVE  SnapInv'
  <1>1. /\ b \in [n : 1..MaxBuilds, target : Target, step : Step]
        /\ b.n \in Content /\ Torn \in Content /\ ~IsThere(b.target)
    BY TheBuild, Numbers
  <1>2. disk \in [Target -> [state : Content, memory : Content, metadata : Content]]
    BY DEF SnapInv, SnapTypeOK
  <1>3. Wrote(b)
    BY DEF SnapInv
  <1>4. CASE WritesState(b)
    <2>1. "state" \in Step
      BY DEF Step
    <2> QED BY <1>1, <1>2, <1>4, <2>1, BuildMoves DEF WritesState
  <1>5. CASE WritesMemory(b)
    <2>1. "memory" \in Step
      BY DEF Step
    <2> QED BY <1>1, <1>2, <1>5, <2>1, BuildMoves DEF WritesMemory
  <1>6. CASE Resumes(b)
    <2>1. "metadata" \in Step
      BY DEF Step
    <2> QED BY <1>1, <1>2, <1>3, <1>6, <2>1, BuildMoves DEF Resumes, Wrote
  <1>7. CASE WritesMetadata(b)
    <2>1. PICK ok \in BOOLEAN : Settle(b, ok)
      BY <1>7 DEF WritesMetadata
    <2>2. disk' = [disk EXCEPT ![b.target].metadata = b.n] /\ b.step = "metadata"
      BY <1>7 DEF WritesMetadata
    <2>3. disk' \in [Target -> [state : Content, memory : Content, metadata : Content]]
      BY <1>1, <1>2, <2>2
    <2>4. \A t \in Target \ {b.target} : disk'[t] = disk[t]
      BY <1>1, <1>2, <2>2
    <2>5. IsThere(b.target)' /\ Whole(b.target)'
      BY <1>1, <1>2, <1>3, <2>2, Numbers DEF IsThere, Whole, Wrote
    <2>6. \A t \in Target : /\ IsThere(t) => disk'[t] = disk[t]
                            /\ IsThere(t)' => Whole(t)'
      BY <1>1, <2>4, <2>5 DEF SnapInv, IsThere, Whole
    <2> QED BY <2>1, <2>3, <2>5, <2>6, SettlePreserves
  <1>8. CASE BuildFails(b)
    <2>1. disk' = disk /\ Settle(b, FALSE)
      BY <1>8 DEF BuildFails
    <2>2. \A t \in Target : IsThere(t)' => Whole(t)'
      BY <2>1 DEF SnapInv, IsThere, Whole
    <2> QED BY <1>2, <2>1, <2>2, SettlePreserves
  <1> QED BY <1>4, <1>5, <1>6, <1>7, <1>8

LEMMA SnapInvNext == SnapInv /\ [SnapNext]_snapVars => SnapInv'
  <1> SUFFICES ASSUME SnapInv, [SnapNext]_snapVars PROVE SnapInv'
    OBVIOUS
  <1>1. CASE UNCHANGED snapVars
    BY <1>1 DEF snapVars, SnapInv, SnapTypeOK, OneBuild, IsThere, Whole, Wrote,
                AwaitsIts, RestoresAreWhole
  <1> QED BY <1>1, AgentStartsPreserves, AgentKilledPreserves, RestoreBeginsPreserves,
             RestoreLoadsPreserves, RestoreOverPreserves, BuildPreserves DEF SnapNext

\* Whatever failed, was killed or waited for the promise of a build: a session's
\* VM has its state and its memory from one finished build (#ensureSnapshot,
\* createBaseSnapshot and #restoreFromSnapshot of firecracker.ts).
THEOREM SnapshotsAreWhole == SnapSpec => [](SnapTypeOK /\ RestoresAreWhole)
  <1>1. SnapInv => SnapTypeOK /\ RestoresAreWhole
    BY DEF SnapInv
  <1> QED BY <1>1, SnapInvInit, SnapInvNext, PTL DEF SnapSpec

-------------------------------------------------------------------------------
(***************************************************************************)
(* HostResources. For any VMs and any number of agents, killed at any      *)
(* moment: no two VMs are ever in one namespace, and an agent that is up   *)
(* is alone with its own.  A process that is started, but has not entered  *)
(* the namespace yet, counts as one that is in it: what is inductive is    *)
(* said of both.                                                           *)
(***************************************************************************)
\* Processes in the namespace or about to enter it.
Pend == {x \in Process : proc[x] \in {"wrapped", "in"}}
Wrapped == {x \in Process : proc[x] = "wrapped"}
VMs == {x \in Alive : x[2] = "vm"}
\* All but helpers and forks whose namespace has lost its name.
Strangers == {x \in Alive : x[2] = "vm" \/ proc[x] # "lost"}

Purging == {"netnsTerm", "netnsKill", "nameTerm", "nameKill"}
Life == {"none", "wrapped", "in", "lost", "gone"}

HostTypes ==
    /\ agent \in {"starting", "up", "ending", "down"}
    /\ slot \in {"free", "reserved", "rebuilding", "broken"}
    /\ job \in [at : AtJob, for : {"launch", "destroy", "rebuild"},
                m : SUBSET Machine]
    /\ mine \subseteq Machine
    /\ sweep \in AtSweep
    /\ netns \in {"none", "bare", "ready"}
    /\ proc \in [Process -> Life]

\* What an agent does to the slot goes with the state it has given the slot.
JobShape ==
    \/ job = NoJob
    \/ /\ job.for = "launch" /\ job.at \in Purging \cup {"spawn", "starting"}
       /\ slot = "reserved" /\ \E m \in mine : job.m = {m}
    \/ /\ job.for = "destroy"
       /\ job.at \in Purging \cup {"stopHelpers", "socketTerm", "socketKill", "files"}
       /\ slot = "reserved" /\ \E m \in mine : job.m = {m}
    \/ /\ job.for = "rebuild" /\ job.m = {} /\ slot = "rebuilding"
       /\ job.at \in {"rebuildTerm", "rebuildKill", "delete", "add", "devices"}

LifeShape ==
    /\ agent = "down" => job = NoJob
    /\ agent \in {"up", "down"} => sweep = "none"
    /\ agent = "starting" => sweep # "closing" /\ mine = {}
    /\ agent = "starting" /\ sweep # "none"
         => job = NoJob /\ slot = "broken" /\ (touched \/ netns = "none")

NetnsShape == /\ netns = "none" => InNetns = {}
              /\ \A x \in Wrapped : x[2] # "fork"
              /\ \A x, y \in Pend : x[1] = y[1]

\* What the slot's state says of the processes, and of who may be destroyed.
SlotClean ==
    /\ slot = "free" => Pend = {}
    /\ slot = "rebuilding" => Wrapped = {}
    /\ slot # "reserved" => mine \cap dirs = {}
    /\ slot = "reserved" =>
         \A m, n \in mine \cap dirs : m = n /\ \A x \in Pend : x[1] = m

\* ... and how far the work on it has come.
JobClean ==
    /\ job.at \in {"delete", "add", "devices"} => Pend = {}
    /\ job.for = "launch" /\ job.at # "starting" => Pend = {}
    /\ job.for # "rebuild" =>
         mine \cap dirs \subseteq job.m /\ \A x \in Pend : x[1] \in job.m
    /\ job.for = "destroy" /\ job.at # "stopHelpers" => \A x \in Pend : x[2] # "helper"
    /\ job.for = "destroy" /\ job.at \in Purging => \A x \in Pend : x[2] # "vm"
    /\ job.for = "destroy" /\ job.at \in {"nameTerm", "nameKill", "files"} => Pend = {}

\* How far the sweep of an agent that starts has come, and where it leads.
StartClean ==
    /\ agent = "starting" /\ sweep \in {"netnsTerm", "netnsKill"}
         => Wrapped = {} /\ VMs = {}
    /\ agent = "starting" /\ sweep \in {"delete", "files", "none"} => Strangers = {}
    /\ agent = "up" => \A x \in Strangers : x[1] \in mine

HInv == /\ HostTypes /\ JobShape /\ LifeShape /\ NetnsShape
        /\ SlotClean /\ JobClean /\ StartClean

-------------------------------------------------------------------------------
(***************************************************************************)
(* Processes that enter, end or lose the name of their namespace           *)
(***************************************************************************)
LEMMA Jobs == /\ NoJob.at = "none" /\ NoJob.for = "rebuild" /\ NoJob.m = {}
              /\ NoJob \in [at : AtJob, for : {"launch", "destroy", "rebuild"},
                            m : SUBSET Machine]
              /\ Rebuild.at = "rebuildTerm" /\ Rebuild.for = "rebuild"
              /\ Rebuild.m = {}
              /\ Rebuild \in [at : AtJob, for : {"launch", "destroy", "rebuild"},
                              m : SUBSET Machine]
BY DEF NoJob, Rebuild, AtJob

LEMMA WhereTo ==
    ASSUME HostTypes, NEW where \in AtJob, GoOnTo(where)
    PROVE  /\ job'.at = where /\ job'.for = job.for /\ job'.m = job.m
           /\ job' \in [at : AtJob, for : {"launch", "destroy", "rebuild"},
                        m : SUBSET Machine]
BY DEF HostTypes, GoOnTo

LEMMA HostKinds ==
    /\ \A x \in Process : x[1] \in Machine /\ x[2] \in {"vm", "helper", "fork"}
    /\ \A m \in Machine, k \in {"vm", "helper", "fork"} :
          <<m, k>> \in Process /\ <<m, k>>[1] = m /\ <<m, k>>[2] = k
    /\ Alive \subseteq Process /\ Pend \subseteq Alive /\ Wrapped \subseteq Pend
    /\ InNetns \subseteq Pend /\ VMs \subseteq Alive /\ Strangers \subseteq Alive
    /\ Pend \subseteq Strangers /\ VMs \subseteq Strangers
    /\ Pend \subseteq Wrapped \cup InNetns
BY DEF Process, Alive, Pend, Wrapped, InNetns, VMs, Strangers

\* No process is where none of its kind was.
Lesser == /\ proc' \in [Process -> Life]
          /\ Pend' \subseteq Pend /\ Wrapped' \subseteq Wrapped
          /\ VMs' \subseteq VMs /\ Strangers' \subseteq Strangers
          /\ netns' = "none" => InNetns' = {}

LEMMA LesserNetns == NetnsShape /\ Lesser => NetnsShape'
BY DEF NetnsShape, Lesser

\* Some processes end, and those in the namespace may lose it.
LEMMA Prunes ==
    ASSUME HInv, netns' = netns, NEW S, Ended(S)
    PROVE  /\ Lesser
           /\ InNetns' \subseteq InNetns
           /\ \A x \in Alive' : x \in Alive /\ x \notin S
<1>1. /\ proc' \in [Process -> Life]
      /\ \A x \in Process : proc'[x] = IF x \in S THEN "gone" ELSE proc[x]
  BY DEF HInv, HostTypes, Ended, Life
<1>2. Pend' \subseteq Pend /\ Wrapped' \subseteq Wrapped /\ InNetns' \subseteq InNetns
  BY <1>1 DEF Pend, Wrapped, InNetns, Alive
<1>3. VMs' \subseteq VMs /\ Strangers' \subseteq Strangers
  BY <1>1 DEF VMs, Strangers, Alive
<1>4. \A x \in Alive' : x \in Alive /\ x \notin S
  BY <1>1 DEF Alive
<1> QED BY <1>1, <1>2, <1>3, <1>4 DEF Lesser, HInv, NetnsShape

LEMMA TermPrunes ==
    ASSUME HInv, netns' = netns, NEW S, Signalled(S)
    PROVE  Lesser /\ InNetns' \subseteq InNetns
BY Prunes DEF Signalled

LEMMA NameGoesPrunes ==
    ASSUME HInv, NameGoes
    PROVE  Lesser /\ InNetns' = {} /\ netns' = "none"
<1>1. /\ proc' \in [Process -> Life] /\ netns' = "none"
      /\ \A x \in Process : proc'[x] = IF proc[x] = "in" THEN "lost" ELSE proc[x]
  BY DEF HInv, HostTypes, NameGoes, Life
<1>2. Pend' \subseteq Pend /\ Wrapped' \subseteq Wrapped /\ InNetns' = {}
  BY <1>1 DEF Pend, Wrapped, InNetns, Alive
<1>3. VMs' \subseteq VMs /\ Strangers' \subseteq Strangers
  BY <1>1 DEF VMs, Strangers, Alive
<1> QED BY <1>1, <1>2, <1>3 DEF Lesser

\* Nothing else happens.
LEMMA LesserSteps ==
    ASSUME HInv, Lesser,
           UNCHANGED <<agent, slot, job, mine, sweep, touched, netns, dirs>>
    PROVE  HInv'
<1>1. HostTypes' /\ JobShape' /\ LifeShape'
  BY DEF HInv, HostTypes, JobShape, LifeShape, Lesser
<1>2. NetnsShape'
  BY LesserNetns DEF HInv
<1>3. SlotClean'
  BY DEF HInv, SlotClean, Lesser
<1>4. JobClean'
  BY DEF HInv, JobClean, Lesser
<1>5. StartClean'
  BY DEF HInv, StartClean, Lesser
<1> QED BY <1>1, <1>2, <1>3, <1>4, <1>5 DEF HInv

LEMMA HInvInit == HostInit => HInv
<1> SUFFICES ASSUME HostInit PROVE HInv
  OBVIOUS
<1>1. Alive = {} /\ proc \in [Process -> Life]
  BY DEF HostInit, Alive, Life
<1>2. Pend = {} /\ Wrapped = {} /\ InNetns = {} /\ VMs = {} /\ Strangers = {}
  BY <1>1, HostKinds
<1>3. HostTypes
  BY <1>1, Jobs DEF HostInit, HostTypes, AtSweep
<1>4. JobShape /\ LifeShape /\ NetnsShape /\ SlotClean /\ StartClean
  BY <1>2 DEF HostInit, JobShape, LifeShape, NetnsShape, SlotClean, StartClean
<1>5. JobClean
  BY <1>2, Jobs DEF HostInit, JobClean
<1> QED BY <1>3, <1>4, <1>5 DEF HInv

LEMMA EntersAndExits ==
    ASSUME HInv, NEW x \in Process, EnterNetns(x) \/ Exits(x) PROVE HInv'
<1>1. UNCHANGED <<agent, slot, job, mine, sweep, touched, netns, dirs>>
  BY DEF EnterNetns, Exits, life, work, sweeping, net, files
<1>2. CASE Exits(x)
  <2>1. Ended({x})
    BY <1>2 DEF Exits
  <2> QED BY <1>1, <2>1, Prunes, LesserSteps
<1>3. CASE EnterNetns(x)
  <2>1. /\ proc[x] = "wrapped" /\ proc' \in [Process -> Life]
        /\ \A y \in Process : proc'[y] = IF y = x
             THEN IF netns = "none" THEN "gone" ELSE "in" ELSE proc[y]
    BY <1>3 DEF EnterNetns, HInv, HostTypes, Life
  <2>2. Pend' \subseteq Pend /\ Wrapped' \subseteq Wrapped
    BY <2>1 DEF Pend, Wrapped
  <2>3. VMs' \subseteq VMs /\ Strangers' \subseteq Strangers
    BY <2>1 DEF VMs, Strangers, Alive
  <2>4. netns' = "none" => InNetns' = {}
    <3>1. netns = "none" => InNetns' \subseteq InNetns
      BY <2>1 DEF InNetns, Alive
    <3> QED BY <1>1, <3>1 DEF HInv, NetnsShape
  <2>5. Lesser
    BY <2>1, <2>2, <2>3, <2>4 DEF Lesser
  <2> QED BY <1>1, <2>5, LesserSteps
<1> QED BY <1>2, <1>3

\* socat is in the namespace, and what it forks as well.
LEMMA Forks == ASSUME HInv, NEW m \in Machine, Fork(m) PROVE HInv'
<1>1. UNCHANGED <<agent, slot, job, mine, sweep, touched, netns, dirs>>
  BY DEF Fork, life, work, sweeping, net, files
<1>2. PICK h \in Process : h = <<m, "helper">> /\ h[1] = m /\ h[2] = "helper"
  BY HostKinds
<1>3. PICK f \in Process : f = <<m, "fork">> /\ f[1] = m /\ f[2] = "fork"
  BY HostKinds
<1>4. /\ proc[h] = "in" /\ proc' = [proc EXCEPT ![f] = "in"] /\ proc[f] = "none"
  BY <1>2, <1>3 DEF Fork
<1>5. /\ proc' \in [Process -> Life]
      /\ \A x \in Process : proc'[x] = IF x = f THEN "in" ELSE proc[x]
  BY <1>4 DEF HInv, HostTypes, Life
<1>6. /\ Pend' = Pend \cup {f} /\ Wrapped' = Wrapped /\ InNetns' = InNetns \cup {f}
      /\ h \in Pend /\ h \in InNetns /\ h \in Strangers
  BY <1>4, <1>5 DEF Pend, Wrapped, InNetns, Alive, Strangers
<1>7. VMs' = VMs /\ Strangers' = Strangers \cup {f}
  BY <1>3, <1>4, <1>5 DEF VMs, Strangers, Alive
<1>8. HostTypes' /\ JobShape' /\ LifeShape'
  BY <1>1, <1>5 DEF HInv, HostTypes, JobShape, LifeShape
<1>9. NetnsShape'
  <2>1. netns # "none"
    BY <1>6 DEF HInv, NetnsShape
  <2>2. \A x \in Pend : x[1] = m
    BY <1>2, <1>6 DEF HInv, NetnsShape
  <2> QED BY <1>1, <1>3, <1>6, <2>1, <2>2 DEF HInv, NetnsShape
<1>10. SlotClean'
  BY <1>1, <1>2, <1>3, <1>6 DEF HInv, SlotClean
<1>11. JobClean'
  BY <1>1, <1>2, <1>3, <1>6 DEF HInv, JobClean, Purging
<1>12. StartClean'
  BY <1>1, <1>2, <1>3, <1>6, <1>7 DEF HInv, StartClean
<1> QED BY <1>8, <1>9, <1>10, <1>11, <1>12 DEF HInv
-------------------------------------------------------------------------------
(***************************************************************************)
(* The work on the slot                                                    *)
(***************************************************************************)
LEMMA VMLaunchKeeps == ASSUME HInv, NEW m \in Machine, Launch(m) PROVE HInv'
<1>1. /\ UNCHANGED <<agent, sweep, touched, netns, proc>> /\ sweep # "closing"
      /\ agent \in {"up", "ending"} /\ slot = "free" /\ job = NoJob
      /\ slot' = "reserved" /\ mine' = mine \cup {m} /\ dirs' = dirs \cup {m}
      /\ job' = [at |-> "netnsTerm", for |-> "launch", m |-> {m}]
  BY DEF Launch, sweeping, net
<1>2. /\ job'.at = "netnsTerm" /\ job'.for = "launch" /\ job'.m = {m}
      /\ job' \in [at : AtJob, for : {"launch", "destroy", "rebuild"},
                   m : SUBSET Machine]
  BY <1>1 DEF AtJob
<1>3. Pend = {} /\ mine \cap dirs = {}
  BY <1>1 DEF HInv, SlotClean
<1>4. /\ Pend' = Pend /\ Wrapped' = Wrapped /\ VMs' = VMs
      /\ Strangers' = Strangers /\ InNetns' = InNetns
  BY <1>1 DEF Pend, Wrapped, VMs, Strangers, InNetns, Alive
<1>5. HostTypes'
  BY <1>1, <1>2 DEF HInv, HostTypes
<1>6. JobShape' /\ LifeShape'
  BY <1>1, <1>2 DEF HInv, JobShape, LifeShape, Purging
<1>7. NetnsShape'
  BY <1>1, <1>4 DEF HInv, NetnsShape
<1>8. SlotClean'
  <2>1. \A n \in mine' \cap dirs' : n = m
    BY <1>1, <1>3
  <2> QED BY <1>1, <1>3, <1>4, <2>1 DEF SlotClean
<1>9. JobClean'
  BY <1>1, <1>2, <1>3, <1>4 DEF JobClean
<1>10. StartClean'
  BY <1>1, <1>4 DEF HInv, StartClean
<1> QED BY <1>5, <1>6, <1>7, <1>8, <1>9, <1>10 DEF HInv

\* Steps of a job that only end processes, or lose the name of the namespace:
\* what has to be shown is where the job is next and who is left there.
JobGoes == /\ UNCHANGED <<agent, slot, mine, sweep, touched, dirs>>
           /\ netns' = netns \/ agent # "starting" \/ sweep = "none"
           /\ netns' \in {"none", "bare", "ready"}
           /\ job # NoJob
           /\ job' \in [at : AtJob, for : {"launch", "destroy", "rebuild"},
                        m : SUBSET Machine]
           /\ job'.for = job.for /\ job'.m = job.m

LEMMA JobSteps ==
    ASSUME HInv, Lesser, JobGoes, JobShape', JobClean' PROVE HInv'
<1>1. HostTypes' /\ LifeShape'
  BY DEF HInv, HostTypes, LifeShape, Lesser, JobGoes
<1>2. NetnsShape'
  BY LesserNetns DEF HInv
<1>3. SlotClean'
  BY DEF HInv, SlotClean, Lesser, JobGoes
<1>4. StartClean'
  BY DEF HInv, StartClean, Lesser, JobGoes
<1> QED BY <1>1, <1>2, <1>3, <1>4 DEF HInv

LEMMA PurgeKeeps == ASSUME HInv, Purge PROVE HInv'
<1>0. UNCHANGED <<agent, slot, mine, sweep, touched, netns, dirs>>
  BY DEF Purge, life, sweeping, net, files
<1>1. job.at \in Purging /\ job # NoJob /\ job.for \in {"launch", "destroy"}
  BY Jobs DEF Purge, HInv, JobShape, Purging
<1>2. CASE job.at = "netnsTerm"
  <2>1. Signalled(InNetns) /\ GoOnTo("netnsKill")
    BY <1>2 DEF Purge
  <2>2. Lesser
    BY <1>0, <2>1, TermPrunes
  <2>3. /\ job'.at = "netnsKill" /\ job'.for = job.for /\ job'.m = job.m /\ JobGoes
    BY <1>0, <1>1, <2>1, WhereTo DEF HInv, HostTypes, JobGoes, AtJob
  <2>4. JobShape'
    BY <1>0, <1>1, <1>2, <2>3, Jobs DEF HInv, JobShape, Purging
  <2>5. JobClean'
    BY <1>0, <1>1, <1>2, <2>2, <2>3 DEF HInv, JobClean, Lesser, Purging
  <2> QED BY <2>2, <2>3, <2>4, <2>5, JobSteps
<1>3. CASE job.at = "netnsKill"
  <2>1. Ended(InNetns) /\ GoOnTo("nameTerm")
    BY <1>3 DEF Purge
  <2>2. Lesser /\ \A x \in Alive' : x \notin InNetns
    BY <1>0, <2>1, Prunes
  <2>3. /\ job'.at = "nameTerm" /\ job'.for = job.for /\ job'.m = job.m /\ JobGoes
    BY <1>0, <1>1, <2>1, WhereTo DEF HInv, HostTypes, JobGoes, AtJob
  <2>4. JobShape'
    BY <1>0, <1>1, <1>3, <2>3, Jobs DEF HInv, JobShape, Purging
  <2>5. job.for = "destroy" => Pend' = {}
    <3>1. SUFFICES ASSUME job.for = "destroy", NEW x \in Pend' PROVE FALSE
      OBVIOUS
    <3>2. x \in Pend /\ x \in Process /\ x \in Alive'
      BY <2>2, HostKinds DEF Lesser, Pend, Alive
    <3>3. x[2] = "fork"
      BY <1>1, <1>3, <3>1, <3>2, HostKinds DEF HInv, JobClean, Purging
    <3>4. x \in InNetns
      BY <3>2, <3>3, HostKinds DEF HInv, NetnsShape
    <3> QED BY <2>2, <3>2, <3>4
  <2>6. JobClean'
    BY <1>0, <1>1, <1>3, <2>2, <2>3, <2>5 DEF HInv, JobClean, Lesser, Purging
  <2> QED BY <2>2, <2>3, <2>4, <2>6, JobSteps
<1>4. CASE job.at = "nameTerm"
  <2>1. Signalled(ByName) /\ GoOnTo("nameKill")
    BY <1>4 DEF Purge
  <2>2. Lesser
    BY <1>0, <2>1, TermPrunes
  <2>3. /\ job'.at = "nameKill" /\ job'.for = job.for /\ job'.m = job.m /\ JobGoes
    BY <1>0, <1>1, <2>1, WhereTo DEF HInv, HostTypes, JobGoes, AtJob
  <2>4. JobShape'
    BY <1>0, <1>1, <1>4, <2>3, Jobs DEF HInv, JobShape, Purging
  <2>5. JobClean'
    BY <1>0, <1>1, <1>4, <2>2, <2>3 DEF HInv, JobClean, Lesser, Purging
  <2> QED BY <2>2, <2>3, <2>4, <2>5, JobSteps
<1>5. CASE job.at = "nameKill"
  <2>1. Ended(ByName) /\ GoOnTo(IF job.for = "launch" THEN "spawn" ELSE "files")
    BY <1>5 DEF Purge
  <2>2. Lesser
    BY <1>0, <2>1, Prunes
  <2>3. /\ job'.at = IF job.for = "launch" THEN "spawn" ELSE "files"
        /\ job'.for = job.for /\ job'.m = job.m /\ JobGoes
    <3>1. (IF job.for = "launch" THEN "spawn" ELSE "files") \in AtJob
      BY DEF AtJob
    <3> QED BY <1>0, <1>1, <2>1, <3>1, WhereTo DEF HInv, HostTypes, JobGoes
  <2>4. JobShape'
    BY <1>0, <1>1, <1>5, <2>3, Jobs DEF HInv, JobShape, Purging
  <2>5. JobClean'
    BY <1>0, <1>1, <1>5, <2>2, <2>3 DEF HInv, JobClean, Lesser, Purging
  <2> QED BY <2>2, <2>3, <2>4, <2>5, JobSteps
<1> QED BY <1>1, <1>2, <1>3, <1>4, <1>5 DEF Purging

\* Firecracker and its helpers find the namespace empty.
LEMMA SpawnKeeps == ASSUME HInv, SpawnVM PROVE HInv'
<1>1. /\ UNCHANGED <<agent, slot, mine, sweep, touched, netns, dirs>>
      /\ job.at = "spawn" /\ GoOnTo("starting")
      /\ proc' = [x \in Process |->
                    IF x[1] \in job.m /\ x[2] # "fork" THEN "wrapped" ELSE proc[x]]
  BY DEF SpawnVM, life, sweeping, net, files
<1>2. /\ job'.at = "starting" /\ job'.for = job.for /\ job'.m = job.m
      /\ job' \in [at : AtJob, for : {"launch", "destroy", "rebuild"},
                   m : SUBSET Machine]
  BY <1>1, WhereTo DEF HInv, AtJob
<1>3. /\ job # NoJob /\ job.for = "launch" /\ slot = "reserved"
      /\ \E m \in mine : job.m = {m}
  BY <1>1, Jobs DEF HInv, JobShape, Purging
<1>4. PICK m \in mine : job.m = {m}
  BY <1>3
<1>5. Pend = {} /\ mine \cap dirs \subseteq {m}
  BY <1>1, <1>3, <1>4 DEF HInv, JobClean
<1>6. /\ proc' \in [Process -> Life]
      /\ \A x \in Pend' : x[1] = m /\ x[2] # "fork" /\ x \in Wrapped'
  BY <1>1, <1>4, <1>5 DEF HInv, HostTypes, Life, Pend, Wrapped
<1>7. \A x \in Strangers' : x[1] = m \/ x \in Strangers
  BY <1>1, <1>4 DEF Strangers, Alive
<1>8. Wrapped' \subseteq Pend' /\ InNetns' = {}
  BY <1>6 DEF Wrapped, Pend, InNetns, Alive
<1>9. agent # "starting"
  BY <1>4 DEF HInv, LifeShape
<1>10. HostTypes' /\ JobShape' /\ LifeShape'
  BY <1>1, <1>2, <1>3, <1>6, <1>9, Jobs DEF HInv, HostTypes, JobShape, LifeShape
<1>11. NetnsShape'
  BY <1>6, <1>8 DEF NetnsShape
<1>12. SlotClean'
  BY <1>1, <1>3, <1>5, <1>6 DEF SlotClean
<1>13. JobClean'
  BY <1>1, <1>2, <1>3, <1>4, <1>5, <1>6 DEF JobClean
<1>14. StartClean'
  BY <1>1, <1>4, <1>7, <1>9 DEF HInv, StartClean
<1> QED BY <1>10, <1>11, <1>12, <1>13, <1>14 DEF HInv

LEMMA StartedKeeps == ASSUME HInv, Started PROVE HInv'
<1>1. /\ UNCHANGED <<agent, slot, mine, sweep, touched, netns, dirs, proc>>
      /\ job.at = "starting" /\ job' = NoJob
  BY DEF Started, life, sweeping, net, files
<1>2. /\ Pend' = Pend /\ Wrapped' = Wrapped /\ VMs' = VMs
      /\ Strangers' = Strangers /\ InNetns' = InNetns
  BY <1>1 DEF Pend, Wrapped, VMs, Strangers, InNetns, Alive
<1>3. HostTypes' /\ JobShape' /\ LifeShape'
  BY <1>1, Jobs DEF HInv, HostTypes, JobShape, LifeShape
<1>4. NetnsShape' /\ StartClean' /\ SlotClean'
  BY <1>1, <1>2 DEF HInv, NetnsShape, StartClean, SlotClean
<1>5. JobClean'
  BY <1>1, Jobs DEF JobClean
<1> QED BY <1>3, <1>4, <1>5 DEF HInv

\* Whoever was started and is not a fork is ended; no other has been started.
LEMMA SpawnFailsKeeps == ASSUME HInv, SpawnVMFails PROVE HInv'
<1>1. /\ UNCHANGED <<agent, mine, sweep, touched, netns>>
      /\ job.at = "starting" /\ job' = Rebuild /\ slot' = "rebuilding"
      /\ dirs' = dirs \ job.m
      /\ Ended({x \in Alive : x[1] \in job.m /\ x[2] # "fork"})
  BY DEF SpawnVMFails, life, sweeping, net
<1>2. job.for = "launch" /\ \E m \in mine : job.m = {m}
  BY <1>1, Jobs DEF HInv, JobShape, Purging
<1>3. /\ Lesser /\ \A x \in Alive' : /\ x \in Alive
                                     /\ ~(x[1] \in job.m /\ x[2] # "fork")
  BY <1>1, Prunes
<1>4. Wrapped' = {}
  <2>1. SUFFICES ASSUME NEW x \in Wrapped' PROVE FALSE
    OBVIOUS
  <2>2. x \in Wrapped /\ x \in Alive'
    BY <1>3 DEF Lesser, Wrapped, Alive
  <2>3. x \in Pend /\ x[2] # "fork"
    BY <2>2, HostKinds DEF HInv, NetnsShape
  <2>4. x[1] \in job.m
    BY <1>2, <2>3 DEF HInv, JobClean
  <2> QED BY <1>3, <2>2, <2>3, <2>4
<1>5. mine' \cap dirs' = {}
  BY <1>1, <1>2 DEF HInv, JobClean
<1>6. agent # "starting"
  BY <1>2 DEF HInv, LifeShape
<1>7. HostTypes' /\ JobShape' /\ LifeShape'
  <2>1. HostTypes'
    BY <1>1, <1>3, Jobs DEF HInv, HostTypes, Lesser
  <2>2. JobShape'
    BY <1>1, Jobs DEF JobShape
  <2>3. agent # "down"
    BY <1>1, <1>2, Jobs DEF HInv, LifeShape
  <2>4. LifeShape'
    BY <1>1, <1>6, <2>3 DEF HInv, LifeShape
  <2> QED BY <2>1, <2>2, <2>4
<1>8. NetnsShape'
  BY <1>3, LesserNetns DEF HInv
<1>9. SlotClean'
  BY <1>1, <1>4, <1>5 DEF SlotClean
<1>10. JobClean'
  BY <1>1, Jobs DEF JobClean, Purging
<1>11. StartClean'
  BY <1>1, <1>3, <1>6 DEF HInv, StartClean, Lesser
<1> QED BY <1>7, <1>8, <1>9, <1>10, <1>11 DEF HInv

\* The only machine with a directory is the only one with processes.
LEMMA DestroyKeeps == ASSUME HInv, NEW m \in Machine, Destroy(m) PROVE HInv'
<1>1. /\ UNCHANGED <<agent, slot, mine, sweep, touched, netns, dirs, proc>>
      /\ agent \in {"up", "ending"} /\ slot = "reserved"
      /\ m \in mine \cap dirs
      /\ job' = [at |-> "stopHelpers", for |-> "destroy", m |-> {m}]
  BY DEF Destroy, life, sweeping, net, files
<1>2. /\ job'.at = "stopHelpers" /\ job'.for = "destroy" /\ job'.m = {m}
      /\ job' \in [at : AtJob, for : {"launch", "destroy", "rebuild"},
                   m : SUBSET Machine]
  BY <1>1 DEF AtJob
<1>3. /\ Pend' = Pend /\ Wrapped' = Wrapped /\ VMs' = VMs
      /\ Strangers' = Strangers /\ InNetns' = InNetns
  BY <1>1 DEF Pend, Wrapped, VMs, Strangers, InNetns, Alive
<1>4. HostTypes' /\ JobShape' /\ LifeShape'
  BY <1>1, <1>2 DEF HInv, HostTypes, JobShape, LifeShape
<1>5. NetnsShape' /\ StartClean' /\ SlotClean'
  BY <1>1, <1>3 DEF HInv, NetnsShape, StartClean, SlotClean
<1>6. mine \cap dirs \subseteq {m} /\ \A x \in Pend : x[1] = m
  BY <1>1 DEF HInv, SlotClean
<1>7. JobClean'
  BY <1>1, <1>2, <1>3, <1>6 DEF JobClean, Purging
<1> QED BY <1>4, <1>5, <1>7 DEF HInv

\* Once the helpers and then Firecracker are gone, a fork can only be left.
LEMMA StopKeeps == ASSUME HInv, Stop PROVE HInv'
<1>0. UNCHANGED <<agent, slot, mine, sweep, touched, netns, dirs>>
  BY DEF Stop, life, sweeping, net, files
<1>1. /\ job.at \in {"stopHelpers", "socketTerm", "socketKill"}
      /\ job # NoJob /\ job.for = "destroy"
  BY Jobs DEF Stop, HInv, JobShape, Purging
<1>2. \A x \in Pend : x[1] \in job.m
  BY <1>1 DEF HInv, JobClean
<1>3. CASE job.at = "stopHelpers"
  <2>1. /\ Ended({x \in Alive : x[1] \in job.m /\ x[2] = "helper"})
        /\ GoOnTo("socketTerm")
    BY <1>3 DEF Stop
  <2>2. /\ Lesser
        /\ \A x \in Alive' : x \in Alive /\ ~(x[1] \in job.m /\ x[2] = "helper")
    BY <1>0, <2>1, Prunes
  <2>3. /\ job'.at = "socketTerm" /\ job'.for = job.for /\ job'.m = job.m /\ JobGoes
    BY <1>0, <1>1, <2>1, WhereTo DEF HInv, HostTypes, JobGoes, AtJob
  <2>4. JobShape'
    BY <1>0, <1>1, <1>3, <2>3, Jobs DEF HInv, JobShape, Purging
  <2>5. \A x \in Pend' : x[2] # "helper"
    <3>1. Pend' \subseteq Alive'
      BY DEF Pend, Alive
    <3> QED BY <1>2, <2>2, <3>1 DEF Lesser
  <2>6. JobClean'
    BY <1>0, <1>1, <1>3, <2>2, <2>3, <2>5 DEF HInv, JobClean, Lesser, Purging
  <2> QED BY <2>2, <2>3, <2>4, <2>6, JobSteps
<1>4. CASE job.at = "socketTerm"
  <2>1. Signalled(BySocket(job.m)) /\ GoOnTo("socketKill")
    BY <1>4 DEF Stop
  <2>2. Lesser
    BY <1>0, <2>1, TermPrunes
  <2>3. /\ job'.at = "socketKill" /\ job'.for = job.for /\ job'.m = job.m /\ JobGoes
    BY <1>0, <1>1, <2>1, WhereTo DEF HInv, HostTypes, JobGoes, AtJob
  <2>4. JobShape'
    BY <1>0, <1>1, <1>4, <2>3, Jobs DEF HInv, JobShape, Purging
  <2>5. JobClean'
    BY <1>0, <1>1, <1>4, <2>2, <2>3 DEF HInv, JobClean, Lesser, Purging
  <2> QED BY <2>2, <2>3, <2>4, <2>5, JobSteps
<1>5. CASE job.at = "socketKill"
  <2>1. Ended(BySocket(job.m)) /\ GoOnTo("netnsTerm")
    BY <1>5 DEF Stop
  <2>2. Lesser /\ \A x \in Alive' : x \in Alive /\ x \notin BySocket(job.m)
    BY <1>0, <2>1, Prunes
  <2>3. /\ job'.at = "netnsTerm" /\ job'.for = job.for /\ job'.m = job.m /\ JobGoes
    BY <1>0, <1>1, <2>1, WhereTo DEF HInv, HostTypes, JobGoes, AtJob
  <2>4. JobShape'
    BY <1>0, <1>1, <1>5, <2>3, Jobs DEF HInv, JobShape, Purging
  <2>5. \A x \in Pend' : x[2] # "vm"
    <3>1. Pend' \subseteq Alive'
      BY DEF Pend, Alive
    <3> QED BY <1>2, <2>2, <3>1 DEF Lesser, BySocket
  <2>6. JobClean'
    BY <1>0, <1>1, <1>5, <2>2, <2>3, <2>5 DEF HInv, JobClean, Lesser, Purging
  <2> QED BY <2>2, <2>3, <2>4, <2>6, JobSteps
<1> QED BY <1>1, <1>3, <1>4, <1>5

\* The slot is free only with an empty namespace.
LEMMA DestroyedKeeps == ASSUME HInv, Destroyed PROVE HInv'
<1>1. /\ UNCHANGED <<agent, mine, sweep, touched, netns, proc>>
      /\ job.at = "files" /\ dirs' = dirs \ job.m
      /\ \/ slot' = "free" /\ job' = NoJob
         \/ slot' = "rebuilding" /\ job' = Rebuild
  BY DEF Destroyed, life, sweeping, net
<1>2. job.for = "destroy" /\ job # NoJob /\ \E m \in mine : job.m = {m}
  BY <1>1, Jobs DEF HInv, JobShape, Purging
<1>3. /\ Pend' = Pend /\ Wrapped' = Wrapped /\ VMs' = VMs
      /\ Strangers' = Strangers /\ InNetns' = InNetns
  BY <1>1 DEF Pend, Wrapped, VMs, Strangers, InNetns, Alive
<1>4. Pend = {} /\ Wrapped = {} /\ mine \cap dirs \subseteq job.m
  BY <1>1, <1>2, HostKinds DEF HInv, JobClean
<1>5. HostTypes' /\ JobShape'
  BY <1>1, Jobs DEF HInv, HostTypes, JobShape
<1>6. agent \notin {"starting", "down"}
  BY <1>2 DEF HInv, LifeShape
<1>7. LifeShape' /\ NetnsShape' /\ StartClean'
  BY <1>1, <1>3, <1>6 DEF HInv, LifeShape, NetnsShape, StartClean
<1>8. SlotClean'
  BY <1>1, <1>3, <1>4 DEF SlotClean
<1>9. JobClean'
  BY <1>1, Jobs DEF JobClean
<1> QED BY <1>5, <1>7, <1>8, <1>9 DEF HInv
-------------------------------------------------------------------------------
(***************************************************************************)
(* The slot rebuilt                                                        *)
(***************************************************************************)
\* Nothing is about to enter a slot that is rebuilt.
LEMMA RebuildPurgesKeeps == ASSUME HInv, RebuildPurges PROVE HInv'
<1>0. UNCHANGED <<agent, slot, mine, sweep, touched, netns, dirs>>
  BY DEF RebuildPurges, life, sweeping, net, files
<1>1. /\ job.at \in {"rebuildTerm", "rebuildKill"}
      /\ job # NoJob /\ job.for = "rebuild" /\ slot = "rebuilding"
  BY Jobs DEF RebuildPurges, HInv, JobShape, Purging
<1>2. CASE job.at = "rebuildTerm"
  <2>1. Signalled(InNetns) /\ GoOnTo("rebuildKill")
    BY <1>2 DEF RebuildPurges
  <2>2. Lesser
    BY <1>0, <2>1, TermPrunes
  <2>3. /\ job'.at = "rebuildKill" /\ job'.for = job.for /\ job'.m = job.m /\ JobGoes
    BY <1>0, <1>1, <2>1, WhereTo DEF HInv, HostTypes, JobGoes, AtJob
  <2>4. JobShape'
    BY <1>0, <1>1, <1>2, <2>3, Jobs DEF HInv, JobShape, Purging
  <2>5. JobClean'
    BY <1>1, <2>3 DEF JobClean
  <2> QED BY <2>2, <2>3, <2>4, <2>5, JobSteps
<1>3. CASE job.at = "rebuildKill"
  <2>1. Ended(InNetns) /\ GoOnTo("delete")
    BY <1>3 DEF RebuildPurges
  <2>2. Lesser /\ \A x \in Alive' : x \notin InNetns
    BY <1>0, <2>1, Prunes
  <2>3. /\ job'.at = "delete" /\ job'.for = job.for /\ job'.m = job.m /\ JobGoes
    BY <1>0, <1>1, <2>1, WhereTo DEF HInv, HostTypes, JobGoes, AtJob
  <2>4. JobShape'
    BY <1>0, <1>1, <1>3, <2>3, Jobs DEF HInv, JobShape, Purging
  <2>5. Pend' = {}
    <3>1. Pend' \subseteq Alive' /\ Pend' \subseteq Pend
      BY <2>2 DEF Pend, Alive, Lesser
    <3>2. Pend \subseteq InNetns
      BY <1>1, HostKinds DEF HInv, SlotClean
    <3> QED BY <2>2, <3>1, <3>2
  <2>6. JobClean'
    BY <1>1, <2>3, <2>5 DEF JobClean
  <2> QED BY <2>2, <2>3, <2>4, <2>6, JobSteps
<1> QED BY <1>1, <1>2, <1>3

LEMMA RebuildDeletesKeeps == ASSUME HInv, RebuildDeletes PROVE HInv'
<1>1. /\ UNCHANGED <<agent, slot, mine, sweep, touched, dirs>>
      /\ job.at = "delete" /\ NameGoes /\ GoOnTo("add")
  BY DEF RebuildDeletes, life, sweeping, files
<1>2. job # NoJob /\ job.for = "rebuild" /\ Pend = {}
  BY <1>1, Jobs DEF HInv, JobShape, JobClean, Purging
<1>3. Lesser /\ netns' = "none"
  BY <1>1, NameGoesPrunes
<1>4. agent # "starting" \/ sweep = "none"
  BY <1>2 DEF HInv, LifeShape
<1>5. /\ job'.at = "add" /\ job'.for = job.for /\ job'.m = job.m /\ JobGoes
  BY <1>1, <1>2, <1>3, <1>4, WhereTo DEF HInv, HostTypes, JobGoes, AtJob
<1>6. JobShape'
  BY <1>1, <1>2, <1>5, Jobs DEF HInv, JobShape, Purging
<1>7. JobClean'
  BY <1>2, <1>3, <1>5 DEF JobClean, Lesser
<1> QED BY <1>3, <1>5, <1>6, <1>7, JobSteps

\* The namespace is added for nobody.
LEMMA RebuildAddsKeeps == ASSUME HInv, RebuildAdds PROVE HInv'
<1>1. /\ UNCHANGED <<agent, slot, mine, sweep, touched, dirs, proc>>
      /\ job.at = "add" /\ (job' = job \/ GoOnTo("devices"))
      /\ netns' \in {netns, "bare"}
  BY DEF RebuildAdds, life, sweeping, files, net
<1>2. job # NoJob /\ job.for = "rebuild" /\ Pend = {}
  BY <1>1, Jobs DEF HInv, JobShape, JobClean, Purging
<1>3. /\ Pend' = Pend /\ Wrapped' = Wrapped /\ VMs' = VMs
      /\ Strangers' = Strangers /\ InNetns' = InNetns
  BY <1>1 DEF Pend, Wrapped, VMs, Strangers, InNetns, Alive
<1>4. InNetns = {}
  BY <1>2, HostKinds
<1>5. Lesser
  BY <1>1, <1>3, <1>4 DEF Lesser, HInv, HostTypes
<1>6. agent # "starting" \/ sweep = "none"
  BY <1>2 DEF HInv, LifeShape
<1>7. /\ job'.at \in {"add", "devices"} /\ job'.for = job.for /\ job'.m = job.m
      /\ JobGoes
  <2>1. CASE job' = job
    BY <1>1, <1>2, <1>6, <2>1 DEF HInv, HostTypes, JobGoes
  <2>2. CASE GoOnTo("devices")
    BY <1>1, <1>2, <1>6, <2>2, WhereTo DEF HInv, HostTypes, JobGoes, AtJob
  <2> QED BY <1>1, <2>1, <2>2
<1>8. JobShape'
  BY <1>1, <1>2, <1>7, Jobs DEF HInv, JobShape, Purging
<1>9. JobClean'
  BY <1>2, <1>3, <1>7 DEF JobClean
<1> QED BY <1>5, <1>7, <1>8, <1>9, JobSteps

\* An agent that starts is up only after its sweep.
LEMMA RebuildEndsKeeps == ASSUME HInv, RebuildEnds PROVE HInv'
<1>1. /\ UNCHANGED <<mine, sweep, touched, dirs, proc>>
      /\ job.at = "devices" /\ netns' = "ready" /\ slot' = "free" /\ job' = NoJob
      /\ agent' = IF agent = "starting" THEN "up" ELSE agent
  BY DEF RebuildEnds, sweeping, files
<1>2. job # NoJob /\ job.for = "rebuild" /\ slot = "rebuilding" /\ Pend = {}
  BY <1>1, Jobs DEF HInv, JobShape, JobClean, Purging
<1>3. /\ Pend' = Pend /\ Wrapped' = Wrapped /\ VMs' = VMs
      /\ Strangers' = Strangers /\ InNetns' = InNetns
  BY <1>1 DEF Pend, Wrapped, VMs, Strangers, InNetns, Alive
<1>4. mine \cap dirs = {}
  BY <1>2 DEF HInv, SlotClean
<1>5. agent = "starting" => sweep = "none"
  BY <1>2 DEF HInv, LifeShape
<1>6. HostTypes' /\ JobShape'
  BY <1>1, Jobs DEF HInv, HostTypes, JobShape
<1>7. LifeShape'
  BY <1>1, <1>2, <1>5 DEF HInv, LifeShape
<1>8. NetnsShape'
  BY <1>1, <1>3 DEF HInv, NetnsShape
<1>9. SlotClean'
  BY <1>1, <1>2, <1>3, <1>4 DEF SlotClean
<1>10. JobClean'
  BY <1>1, Jobs DEF JobClean
<1>11. StartClean'
  BY <1>1, <1>3, <1>5 DEF HInv, StartClean
<1> QED BY <1>6, <1>7, <1>8, <1>9, <1>10, <1>11 DEF HInv

LEMMA RebuildFailsKeeps == ASSUME HInv, RebuildFails PROVE HInv'
<1>1. /\ UNCHANGED <<mine, sweep, touched, netns, dirs, proc>>
      /\ job.at \in {"add", "devices"} /\ slot' = "broken" /\ job' = NoJob
      /\ agent' = IF agent = "starting" THEN "down" ELSE agent
  BY DEF RebuildFails, sweeping, files, net
<1>2. job # NoJob /\ job.for = "rebuild" /\ slot = "rebuilding"
  BY <1>1, Jobs DEF HInv, JobShape, Purging
<1>3. /\ Pend' = Pend /\ Wrapped' = Wrapped /\ VMs' = VMs
      /\ Strangers' = Strangers /\ InNetns' = InNetns
  BY <1>1 DEF Pend, Wrapped, VMs, Strangers, InNetns, Alive
<1>4. mine \cap dirs = {}
  BY <1>2 DEF HInv, SlotClean
<1>5. agent = "starting" => sweep = "none"
  BY <1>2 DEF HInv, LifeShape
<1>6. HostTypes' /\ JobShape'
  BY <1>1, Jobs DEF HInv, HostTypes, JobShape
<1>7. LifeShape' /\ NetnsShape' /\ SlotClean'
  BY <1>1, <1>3, <1>4, <1>5 DEF HInv, LifeShape, NetnsShape, SlotClean
<1>8. JobClean' /\ StartClean'
  BY <1>1, <1>3, Jobs DEF HInv, JobClean, StartClean
<1> QED BY <1>6, <1>7, <1>8 DEF HInv
-------------------------------------------------------------------------------
(***************************************************************************)
(* The life of an agent                                                    *)
(***************************************************************************)
LEMMA StartKeeps == ASSUME HInv, Start PROVE HInv'
<1>1. /\ UNCHANGED <<job, netns, dirs, proc>>
      /\ agent = "down" /\ agent' = "starting" /\ slot' = "broken" /\ mine' = {}
      /\ sweep' = "term" /\ touched' = (netns # "none")
  BY DEF Start, net, files
<1>2. job = NoJob
  BY <1>1 DEF HInv, LifeShape
<1>3. /\ Pend' = Pend /\ Wrapped' = Wrapped /\ VMs' = VMs
      /\ Strangers' = Strangers /\ InNetns' = InNetns
  BY <1>1 DEF Pend, Wrapped, VMs, Strangers, InNetns, Alive
<1>4. HostTypes' /\ JobShape' /\ LifeShape'
  BY <1>1, <1>2 DEF HInv, HostTypes, JobShape, LifeShape, AtSweep
<1>5. NetnsShape' /\ SlotClean' /\ StartClean'
  BY <1>1, <1>3 DEF HInv, NetnsShape, SlotClean, StartClean
<1>6. JobClean'
  BY <1>1, <1>2, Jobs DEF JobClean
<1> QED BY <1>4, <1>5, <1>6 DEF HInv

LEMMA SignalKeeps == ASSUME HInv, Signal PROVE HInv'
<1>1. /\ UNCHANGED <<slot, job, mine, sweep, touched, netns, dirs, proc>>
      /\ agent = "up" /\ agent' = "ending"
  BY DEF Signal, work, sweeping, net, files
<1>3. /\ Pend' = Pend /\ Wrapped' = Wrapped /\ VMs' = VMs
      /\ Strangers' = Strangers /\ InNetns' = InNetns
  BY <1>1 DEF Pend, Wrapped, VMs, Strangers, InNetns, Alive
<1>4. HostTypes' /\ JobShape' /\ LifeShape'
  BY <1>1 DEF HInv, HostTypes, JobShape, LifeShape
<1>5. NetnsShape' /\ SlotClean' /\ StartClean' /\ JobClean'
  BY <1>1, <1>3 DEF HInv, NetnsShape, SlotClean, StartClean, JobClean
<1> QED BY <1>4, <1>5 DEF HInv

LEMMA EndSweepsKeeps == ASSUME HInv, EndSweeps PROVE HInv'
<1>1. /\ UNCHANGED <<agent, slot, job, mine, netns, dirs, proc>>
      /\ agent = "ending" /\ sweep' = "term"
  BY DEF EndSweeps, life, work, net, files
<1>3. /\ Pend' = Pend /\ Wrapped' = Wrapped /\ VMs' = VMs
      /\ Strangers' = Strangers /\ InNetns' = InNetns
  BY <1>1 DEF Pend, Wrapped, VMs, Strangers, InNetns, Alive
<1>4. HostTypes' /\ JobShape' /\ LifeShape'
  BY <1>1 DEF HInv, HostTypes, JobShape, LifeShape, AtSweep
<1>5. NetnsShape' /\ SlotClean' /\ StartClean' /\ JobClean'
  BY <1>1, <1>3 DEF HInv, NetnsShape, SlotClean, StartClean, JobClean
<1> QED BY <1>4, <1>5 DEF HInv

\* A sweep ends processes too; for an agent that starts, more than others.
SweepGoes == /\ UNCHANGED <<agent, slot, job, mine, touched, dirs>>
             /\ sweep \in {"term", "kill", "netnsTerm", "netnsKill", "delete"}
             /\ sweep' \in {"kill", "netnsTerm", "netnsKill", "delete", "files"}
             /\ netns' \in {netns, "none"}

LEMMA SweepSteps ==
    ASSUME HInv, Lesser, SweepGoes, agent = "starting" => StartClean'
    PROVE  HInv'
<1>1. HostTypes' /\ JobShape'
  BY DEF HInv, HostTypes, JobShape, Lesser, SweepGoes, AtSweep
<1>2. LifeShape'
  BY DEF HInv, LifeShape, SweepGoes
<1>3. NetnsShape'
  BY LesserNetns DEF HInv
<1>4. SlotClean' /\ JobClean'
  BY DEF HInv, SlotClean, JobClean, Lesser, SweepGoes
<1>5. StartClean'
  BY DEF HInv, LifeShape, StartClean, SweepGoes
<1> QED BY <1>1, <1>2, <1>3, <1>4, <1>5 DEF HInv

\* A VM is found by its socket, a helper by the slot's name or in the namespace.
LEMMA SweepKeeps == ASSUME HInv, Sweep PROVE HInv'
<1>0. UNCHANGED <<agent, slot, job, mine, touched, dirs>>
  BY DEF Sweep, life, work, files
<1>1. CASE sweep = "term"
  <2>1. Signalled(Stale) /\ sweep' = "kill" /\ netns' = netns
    BY <1>1 DEF Sweep, net
  <2>2. Lesser
    BY <2>1, TermPrunes
  <2>3. SweepGoes
    BY <1>0, <1>1, <2>1 DEF SweepGoes
  <2>4. agent = "starting" => StartClean'
    BY <1>0, <2>1 DEF StartClean
  <2> QED BY <2>2, <2>3, <2>4, SweepSteps
<1>2. CASE sweep = "kill"
  <2>1. /\ Ended(Stale) /\ netns' = netns
        /\ sweep' = IF touched THEN "netnsTerm" ELSE "files"
    BY <1>2 DEF Sweep, net
  <2>2. /\ Lesser /\ InNetns' \subseteq InNetns
        /\ \A x \in Alive' : x \in Alive /\ x \notin Stale
    BY <2>1, Prunes
  <2>3. SweepGoes
    BY <1>0, <1>2, <2>1 DEF SweepGoes
  <2>4. \A x \in Alive' : x \in Process /\ x[2] # "vm" /\ ~(x[2] = "helper" /\ proc[x] = "wrapped")
    BY <2>2, HostKinds DEF Stale, BySocket, ByName
  <2>5. VMs' = {}
    BY <2>4 DEF VMs
  <2>6. Wrapped' = {}
    <3>1. SUFFICES ASSUME NEW x \in Wrapped' PROVE FALSE
      OBVIOUS
    <3>2. x \in Alive' /\ x \in Wrapped
      BY <2>2 DEF Wrapped, Alive, Lesser
    <3>3. x[2] # "fork" /\ x \in Process /\ proc[x] = "wrapped"
      BY <3>2 DEF HInv, NetnsShape, Wrapped
    <3> QED BY <2>4, <3>2, <3>3, HostKinds
  <2>7. ~touched /\ agent = "starting" => Strangers' = {}
    <3>1. SUFFICES ASSUME ~touched, agent = "starting", NEW x \in Strangers' PROVE FALSE
      OBVIOUS
    <3>2. InNetns = {}
      BY <1>2, <3>1 DEF HInv, LifeShape, NetnsShape
    <3>3. x \in Alive' /\ x \notin VMs' /\ x \notin Wrapped' /\ x \notin InNetns'
      BY <2>2, <2>5, <2>6, <3>2 DEF Strangers
    <3> QED BY <3>3 DEF Strangers, Alive, VMs, Wrapped, InNetns
  <2>8. agent = "starting" => StartClean'
    BY <1>0, <2>1, <2>5, <2>6, <2>7 DEF StartClean
  <2> QED BY <2>2, <2>3, <2>8, SweepSteps
<1>3. CASE sweep = "netnsTerm"
  <2>1. Signalled(InNetns) /\ sweep' = "netnsKill" /\ netns' = netns
    BY <1>3 DEF Sweep, net
  <2>2. Lesser
    BY <2>1, TermPrunes
  <2>3. SweepGoes
    BY <1>0, <1>3, <2>1 DEF SweepGoes
  <2>4. agent = "starting" => StartClean'
    BY <1>0, <1>3, <2>1, <2>2 DEF HInv, StartClean, Lesser
  <2> QED BY <2>2, <2>3, <2>4, SweepSteps
<1>4. CASE sweep = "netnsKill"
  <2>1. Ended(InNetns) /\ sweep' = "delete" /\ netns' = netns
    BY <1>4 DEF Sweep, net
  <2>2. Lesser /\ \A x \in Alive' : x \in Alive /\ x \notin InNetns
    BY <2>1, Prunes
  <2>3. SweepGoes
    BY <1>0, <1>4, <2>1 DEF SweepGoes
  <2>4. agent = "starting" => Strangers' = {}
    <3>1. SUFFICES ASSUME agent = "starting", NEW x \in Strangers' PROVE FALSE
      OBVIOUS
    <3>2. x \in Strangers /\ x \in Alive' /\ x \in Alive /\ x \notin InNetns
      BY <2>2, HostKinds DEF Lesser, Strangers, Alive
    <3>3. Wrapped = {} /\ VMs = {}
      BY <1>4, <3>1 DEF HInv, StartClean
    <3> QED BY <3>2, <3>3 DEF Strangers, VMs, Wrapped, InNetns, Alive
  <2>5. agent = "starting" => StartClean'
    BY <1>0, <2>1, <2>4 DEF StartClean
  <2> QED BY <2>2, <2>3, <2>5, SweepSteps
<1>5. CASE sweep = "delete"
  <2>1. NameGoes /\ sweep' = "files"
    BY <1>5 DEF Sweep
  <2>2. Lesser /\ netns' = "none"
    BY <2>1, NameGoesPrunes
  <2>3. SweepGoes
    BY <1>0, <1>5, <2>1, <2>2 DEF SweepGoes
  <2>4. agent = "starting" => StartClean'
    BY <1>0, <1>5, <2>1, <2>2 DEF HInv, StartClean, Lesser
  <2> QED BY <2>2, <2>3, <2>4, SweepSteps
<1> QED BY <1>1, <1>2, <1>3, <1>4, <1>5 DEF Sweep

LEMMA SweepEndsKeeps == ASSUME HInv, SweepEnds PROVE HInv'
<1>1. /\ UNCHANGED <<agent, mine, touched, netns, proc>>
      /\ sweep = "files" /\ dirs' = {}
  BY DEF SweepEnds, life, net
<1>2. /\ Pend' = Pend /\ Wrapped' = Wrapped /\ VMs' = VMs
      /\ Strangers' = Strangers /\ InNetns' = InNetns
  BY <1>1 DEF Pend, Wrapped, VMs, Strangers, InNetns, Alive
<1>3. NetnsShape'
  BY <1>1, <1>2 DEF HInv, NetnsShape
<1>4. CASE agent = "starting"
  <2>1. slot' = "rebuilding" /\ job' = Rebuild /\ sweep' = "none"
    BY <1>4 DEF SweepEnds
  <2>2. Strangers = {}
    BY <1>1, <1>4 DEF HInv, StartClean
  <2>3. Pend = {} /\ Wrapped = {}
    BY <2>2, HostKinds
  <2>4. HostTypes' /\ JobShape'
    BY <1>1, <2>1, Jobs DEF HInv, HostTypes, JobShape, AtSweep
  <2>5. LifeShape' /\ SlotClean' /\ StartClean'
    BY <1>1, <1>2, <1>4, <2>1, <2>2, <2>3 DEF HInv, LifeShape, SlotClean, StartClean
  <2>6. JobClean'
    BY <1>2, <2>1, <2>3, Jobs DEF JobClean, Purging
  <2> QED BY <1>3, <2>4, <2>5, <2>6 DEF HInv
<1>5. CASE agent # "starting"
  <2>1. sweep' = "closing" /\ slot' = slot /\ job' = job
    BY <1>5 DEF SweepEnds, work
  <2>2. HostTypes' /\ JobShape' /\ LifeShape'
    BY <1>1, <1>5, <2>1 DEF HInv, HostTypes, JobShape, LifeShape, AtSweep
  <2>3. SlotClean' /\ JobClean' /\ StartClean'
    BY <1>1, <1>2, <1>5, <2>1 DEF HInv, SlotClean, JobClean, StartClean
  <2> QED BY <1>3, <2>2, <2>3 DEF HInv
<1> QED BY <1>4, <1>5

\* An agent that is killed leaves everything as it was.
LEMMA CrashKeeps == ASSUME HInv, Crash PROVE HInv'
<1>1. /\ UNCHANGED <<mine, slot, touched, netns, dirs, proc>>
      /\ agent' = "down" /\ job' = NoJob /\ sweep' = "none"
  BY DEF Crash, net, files
<1>2. /\ Pend' = Pend /\ Wrapped' = Wrapped /\ VMs' = VMs
      /\ Strangers' = Strangers /\ InNetns' = InNetns
  BY <1>1 DEF Pend, Wrapped, VMs, Strangers, InNetns, Alive
<1>3. HostTypes' /\ JobShape' /\ LifeShape'
  BY <1>1, Jobs DEF HInv, HostTypes, JobShape, LifeShape, AtSweep
<1>4. NetnsShape' /\ SlotClean'
  BY <1>1, <1>2 DEF HInv, NetnsShape, SlotClean
<1>5. JobClean' /\ StartClean'
  BY <1>1, Jobs DEF JobClean, StartClean
<1> QED BY <1>3, <1>4, <1>5 DEF HInv

LEMMA HInvNext == HInv /\ [HostNext]_hostVars => HInv'
<1> SUFFICES ASSUME HInv, [HostNext]_hostVars PROVE HInv'
  OBVIOUS
<1>1. CASE HostNext
  BY <1>1, EntersAndExits, Forks, VMLaunchKeeps, DestroyKeeps, PurgeKeeps,
     SpawnKeeps, StartedKeeps, SpawnFailsKeeps, StopKeeps, DestroyedKeeps,
     RebuildPurgesKeeps, RebuildDeletesKeeps, RebuildAddsKeeps, RebuildEndsKeeps,
     RebuildFailsKeeps, StartKeeps, SignalKeeps, EndSweepsKeeps, SweepKeeps,
     SweepEndsKeeps, CrashKeeps DEF HostNext
<1>2. CASE UNCHANGED hostVars
  <2>1. UNCHANGED <<agent, slot, job, mine, sweep, touched, netns, dirs, proc>>
    BY <1>2 DEF hostVars, life, work, sweeping, net, files
  <2>2. /\ Pend' = Pend /\ Wrapped' = Wrapped /\ VMs' = VMs
        /\ Strangers' = Strangers /\ InNetns' = InNetns
    BY <2>1 DEF Pend, Wrapped, VMs, Strangers, InNetns, Alive
  <2>3. HostTypes' /\ JobShape' /\ LifeShape' /\ NetnsShape'
    BY <2>1, <2>2 DEF HInv, HostTypes, JobShape, LifeShape, NetnsShape
  <2>4. SlotClean' /\ JobClean' /\ StartClean'
    BY <2>1, <2>2 DEF HInv, SlotClean, JobClean, StartClean
  <2> QED BY <2>3, <2>4 DEF HInv
<1> QED BY <1>1, <1>2
-------------------------------------------------------------------------------
(***************************************************************************)
(* Theorems                                                                *)
(***************************************************************************)
LEMMA HostStaysInvariant == HostSpec => []HInv
BY HInvInit, HInvNext, PTL DEF HostSpec

\* The namespace of a slot never has processes of two VMs, and none when the
\* slot is free: however destroys, failed launches, purges and rebuilds are cut
\* short by agents that are killed, and whatever `ip netns exec` and socat do in
\* between.
THEOREM NamespacesStayPrivate == HostSpec => []NamespacesHaveOneVM
<1>1. HInv => NamespacesHaveOneVM
  BY HostKinds DEF HInv, NetnsShape, SlotClean, NamespacesHaveOneVM
<1> QED BY <1>1, HostStaysInvariant, PTL

\* An agent whose start has come to an end shares its host with no VM that it
\* has not launched, and with no helper a sweep could find.
THEOREM StartsLeaveNothing == HostSpec => []StartsAreClean
<1>1. HInv => StartsAreClean
  BY DEF HInv, StartClean, StartsAreClean, Strangers
<1> QED BY <1>1, HostStaysInvariant, PTL

\* What HInv says nothing of.
RestTypes == /\ lives \in 0..MaxLives
             /\ due \subseteq Machine
             /\ touched \in BOOLEAN
             /\ veth \in BOOLEAN
             /\ dirs \subseteq Machine
             /\ sockets \subseteq Machine

LEMMA RestTypesKept ==
    ASSUME MaxLives \in Nat, HInv, RestTypes, [HostNext]_hostVars
    PROVE  RestTypes'
<1>1. mine \subseteq Machine
  BY DEF HInv, HostTypes
<1>2. CASE Start
  <2>1. /\ lives < MaxLives /\ lives' = lives + 1 /\ touched' = (netns # "none")
        /\ UNCHANGED <<due, veth, dirs, sockets>>
    BY <1>2 DEF Start, net, files
  <2> QED BY <2>1 DEF RestTypes
<1>3. CASE Signal \/ EndSweeps \/ Crash
  <2>1. /\ UNCHANGED <<lives, veth, dirs, sockets>>
        /\ touched' \in {touched, netns # "none"}
        /\ due' \in {due, mine \cap dirs, {}}
    BY <1>3 DEF Signal, EndSweeps, Crash, sweeping, life, net, files
  <2> QED BY <1>1, <2>1 DEF RestTypes
<1>4. CASE Sweep \/ SweepEnds
  <2>1. /\ UNCHANGED <<lives, due, touched>> /\ veth' \in {veth, FALSE}
        /\ dirs' \in {dirs, {}} /\ sockets' \in {sockets, {}}
    BY <1>4 DEF Sweep, SweepEnds, life, net, files
  <2> QED BY <2>1 DEF RestTypes
<1>5. CASE RebuildPurges \/ RebuildDeletes \/ RebuildAdds \/ RebuildEnds \/ RebuildFails
  <2>1. /\ UNCHANGED <<lives, due, touched, dirs, sockets>>
        /\ veth' \in {veth, TRUE, FALSE}
    BY <1>5 DEF RebuildPurges, RebuildDeletes, RebuildAdds, RebuildEnds,
                RebuildFails, life, sweeping, net, files
  <2> QED BY <2>1 DEF RestTypes
<1>6. CASE Purge \/ SpawnVM \/ Started \/ SpawnVMFails \/ Stop \/ Destroyed
  <2>1. /\ UNCHANGED <<lives, due, touched, veth>>
        /\ dirs' \subseteq dirs /\ sockets' \subseteq sockets
    BY <1>6 DEF Purge, SpawnVM, Started, SpawnVMFails, Stop, Destroyed, life,
                sweeping, net, files
  <2> QED BY <2>1 DEF RestTypes
<1>7. ASSUME NEW m \in Machine, Fork(m) \/ Launch(m) \/ Destroy(m)
      PROVE  RestTypes'
  <2>1. /\ UNCHANGED <<lives, due, touched, veth>>
        /\ dirs' \in {dirs, dirs \cup {m}} /\ sockets' \in {sockets, sockets \ {m}}
    BY <1>7 DEF Fork, Launch, Destroy, life, sweeping, net, files
  <2> QED BY <2>1 DEF RestTypes
<1>8. ASSUME NEW x \in Process, EnterNetns(x) \/ Exits(x)
      PROVE  RestTypes'
  <2>1. /\ UNCHANGED <<lives, due, touched, veth, dirs>>
        /\ sockets' \in {sockets, sockets \cup {x[1]}}
    BY <1>8 DEF EnterNetns, Exits, life, sweeping, net, files
  <2> QED BY <2>1, HostKinds DEF RestTypes
<1>9. CASE UNCHANGED hostVars
  BY <1>9 DEF RestTypes, hostVars, life, sweeping, net, files
<1> QED BY <1>2, <1>3, <1>4, <1>5, <1>6, <1>7, <1>8, <1>9 DEF HostNext

\* The variables keep their types, with any bound on the number of agents.
THEOREM HostTypesKept == MaxLives \in Nat => (HostSpec => []HostTypeOK)
<1> SUFFICES ASSUME MaxLives \in Nat PROVE HostSpec => []HostTypeOK
  OBVIOUS
<1>1. HostInit => RestTypes
  <2>1. HostInit => lives = 0 /\ touched = FALSE /\ veth = FALSE /\ due = {}
                    /\ dirs = {} /\ sockets = {}
    BY DEF HostInit
  <2>2. 0 \in 0..MaxLives /\ FALSE \in BOOLEAN
    OBVIOUS
  <2> QED BY <2>1, <2>2 DEF RestTypes
<1>2. HInv /\ RestTypes => HostTypeOK
  BY DEF HInv, HostTypes, RestTypes, HostTypeOK, Life
<1>3. HInv /\ RestTypes /\ [HostNext]_hostVars => RestTypes'
  BY RestTypesKept
<1> QED BY <1>1, <1>2, <1>3, HostStaysInvariant, PTL DEF HostSpec

-------------------------------------------------------------------------------
(***************************************************************************)
(* ContainerAgent. For any sessions, containers and sizes of the pool: a   *)
(* container that runs is in one place.                                    *)
(***************************************************************************)
\* Containers in the hands of launches, in sessions, and in the warm pool.
InHands == {b \in Box : \E s \in Sess : b \in hand[s]}
InLists == {b \in Box : \E s \in Sess : b \in list[s]}
Pooled == ToSet(warmPool)
Owned == InHands \cup InLists \cup Pooled \cup making

Launched == {b \in Box : box[b] # "unborn"}
Listable == {b \in Box : box[b] \notin {"unborn", "booting"}}
UpNow == {b \in Box : box[b] \in {"booting", "running"}}

Apart ==
    /\ \A s, t \in Sess : s # t => hand[s] \cap hand[t] = {} /\ list[s] \cap list[t] = {}
    /\ \A s \in Sess : \A b, c \in hand[s] : b = c
    /\ \A s \in Sess : \A b, c \in list[s] : b = c
    /\ InHands \cap InLists = {}
    /\ (InHands \cup InLists) \cap (Pooled \cup making) = {}
    /\ Pooled \cap making = {}
    /\ IsInjective(warmPool)

Stages == /\ \A s \in Sess : hand[s] # {} => launching[s] \in {"inspecting", "preparing"}
          /\ \A s \in Sess : list[s] # {} => launching[s] = "over"
          /\ ~filling => making = {}

\* Terminations and passes of the monitor hold the only container a session
\* has ever had, which has run.
Ending ==
    /\ InLists \subseteq Listable
    /\ \A e \in rms : launching[e.s] = "over" /\ list[e.s] \subseteq {e.b} /\ e.b \in Listable
    /\ \A v \in pass : /\ launching[v.s] = "over" /\ list[v.s] \subseteq {v.b}
                       /\ v.b \in Listable
                       /\ v.dead => v.b \in excused \/ v.b \notin UpNow

BInv == /\ BoxTypeOK
        /\ Apart
        /\ Stages
        /\ Owned \subseteq Launched
        /\ Ending
        /\ UpNow \subseteq Owned \cup excused

-------------------------------------------------------------------------------
LEMMA BInvInit == BoxInit => BInv
<1> SUFFICES ASSUME BoxInit PROVE BInv
  OBVIOUS
<1>1. /\ InHands = {} /\ InLists = {} /\ UpNow = {}
  BY DEF BoxInit, InHands, InLists, UpNow
<1>2. Pooled = {} /\ IsInjective(warmPool) /\ warmPool \in Seq(Box)
  BY DEF BoxInit, Pooled, ToSet, IsInjective
<1>3. BoxTypeOK
  BY <1>2 DEF BoxInit, BoxTypeOK
<1>4. Apart /\ Stages /\ Owned \subseteq Launched /\ Ending
  BY <1>1, <1>2 DEF BoxInit, Apart, Stages, Owned, Ending
<1> QED BY <1>1, <1>3, <1>4 DEF BInv

\* Sets that go with the variables they are made of.
LEMMA Unmoved ==
    /\ UNCHANGED hand => InHands' = InHands
    /\ UNCHANGED list => InLists' = InLists
    /\ UNCHANGED warmPool => Pooled' = Pooled
    /\ UNCHANGED box => Launched' = Launched /\ Listable' = Listable /\ UpNow' = UpNow
BY DEF InHands, InLists, Pooled, Launched, Listable, UpNow

\* A launch goes on or is given up, with no container.
LEMMA BoxLaunchKeeps ==
    ASSUME BInv, NEW s \in Sess, LaunchAdmitted(s) \/ LaunchRefused(s)
    PROVE  BInv'
<1>1. /\ UNCHANGED <<box, hand, list, warmPool, making, filling, rms, pass, excused>>
      /\ launching[s] \in {"new", "admitted"}
      /\ launching' = [launching EXCEPT ![s] = launching'[s]]
      /\ launching'[s] \in {"admitted", "over"}
  BY DEF LaunchAdmitted, LaunchRefused, BInv, BoxTypeOK
<1>2. /\ InHands' = InHands /\ InLists' = InLists /\ Pooled' = Pooled
      /\ Launched' = Launched /\ Listable' = Listable /\ UpNow' = UpNow
      /\ Owned' = Owned
  BY <1>1, Unmoved DEF Owned
<1>3. BoxTypeOK'
  BY <1>1 DEF BInv, BoxTypeOK
<1>4. Apart'
  BY <1>1, <1>2 DEF BInv, Apart
<1>5. Stages' /\ Ending'
  BY <1>1, <1>2 DEF BInv, BoxTypeOK, Stages, Ending
<1> QED BY <1>1, <1>2, <1>3, <1>4, <1>5 DEF BInv

LEMMA TakesWarmKeeps == ASSUME BInv, NEW s \in Sess, TakesWarm(s) PROVE BInv'
<1>1. /\ UNCHANGED <<box, list, making, filling, rms, pass, excused>>
      /\ launching[s] = "admitted" /\ warmPool # <<>>
      /\ hand' = [hand EXCEPT ![s] = {Head(warmPool)}]
      /\ warmPool' = Tail(warmPool)
      /\ launching' = [launching EXCEPT ![s] = "inspecting"]
  BY DEF TakesWarm
<1>2. warmPool \in Seq(Box) /\ IsInjective(warmPool)
  BY DEF BInv, BoxTypeOK, Apart
<1>3. PICK b \in Box : b = Head(warmPool) /\ b = warmPool[1]
  BY <1>1, <1>2
<1>4. /\ b \in Pooled /\ Pooled' = Pooled \ {b} /\ IsInjective(warmPool')
      /\ warmPool' \in Seq(Box)
  <2>1. warmPool' = SubSeq(warmPool, 2, Len(warmPool))
    BY <1>1, <1>2
  <2> QED BY <1>1, <1>2, <1>3, <2>1, RestOfList DEF Pooled
<1>5. /\ InLists' = InLists
      /\ Launched' = Launched /\ Listable' = Listable /\ UpNow' = UpNow
  BY <1>1, Unmoved
<1>6. hand[s] = {}
  BY <1>1 DEF BInv, Stages
<1>7. /\ hand' \in [Sess -> SUBSET Box] /\ hand'[s] = {b}
      /\ \A t \in Sess : t # s => hand'[t] = hand[t]
  BY <1>1, <1>3 DEF BInv, BoxTypeOK
<1>8. InHands' = InHands \cup {b} /\ Owned' = Owned
  <2>1. InHands' = InHands \cup {b}
    BY <1>6, <1>7 DEF InHands
  <2> QED BY <1>1, <1>4, <1>5, <2>1 DEF Owned
<1>9. BoxTypeOK'
  BY <1>1, <1>4, <1>7 DEF BInv, BoxTypeOK
<1>10. Apart'
  <2>1. b \notin InHands /\ b \notin InLists /\ b \notin making
    BY <1>4 DEF BInv, Apart
  <2>2. \A t \in Sess : b \notin hand[t]
    BY <2>1 DEF InHands
  <2>3. \A t, u \in Sess : t # u => hand'[t] \cap hand'[u] = {}
    BY <1>7, <2>2 DEF BInv, Apart
  <2> QED BY <1>1, <1>4, <1>5, <1>7, <1>8, <2>1, <2>3 DEF BInv, Apart
<1>11. Stages' /\ Ending'
  BY <1>1, <1>5, <1>7 DEF BInv, BoxTypeOK, Stages, Ending
<1> QED BY <1>1, <1>5, <1>8, <1>9, <1>10, <1>11 DEF BInv

\* What a container may go through once it is launched.
Onward == /\ box' \in [Box -> {"unborn", "booting", "running", "stopped", "gone"}]
          /\ Launched' = Launched /\ Listable \subseteq Listable' /\ UpNow' \subseteq UpNow
          /\ excused \subseteq excused' /\ excused' \subseteq Box

LEMMA DockerRemoves ==
    ASSUME BInv, NEW b \in Launched, DockerRemove(b)
    PROVE  Onward /\ (b \in UpNow' => b \in excused')
<1>1. CASE box' = [box EXCEPT ![b] = "gone"] /\ UNCHANGED excused
  <2>1. /\ box' \in [Box -> {"unborn", "booting", "running", "stopped", "gone"}]
        /\ \A c \in Box : box'[c] = IF c = b THEN "gone" ELSE box[c]
        /\ box[b] # "unborn" /\ b \in Box
    BY <1>1 DEF BInv, BoxTypeOK, Launched
  <2> QED BY <1>1, <2>1 DEF Onward, BInv, BoxTypeOK, Launched, Listable, UpNow
<1>2. CASE excused' = excused \cup {b} /\ UNCHANGED box
  <2>1. b \in Box
    BY DEF Launched
  <2> QED BY <1>2, <2>1, Unmoved DEF Onward, BInv, BoxTypeOK
<1> QED BY <1>1, <1>2 DEF DockerRemove

LEMMA Cleans ==
    ASSUME BInv, NEW b \in Launched, CleansUp(b)
    PROVE  Onward /\ (b \in UpNow' => b \in excused')
<1>1. CASE excused' = excused \cup {b} /\ UNCHANGED box
  <2>1. b \in Box
    BY DEF Launched
  <2> QED BY <1>1, <2>1, Unmoved DEF Onward, BInv, BoxTypeOK
<1> QED BY <1>1, DockerRemoves DEF CleansUp

\* A container boots or exits, whoever has it.
LEMMA BoxesKeep ==
    ASSUME BInv, NEW b \in Box, BoxBoots(b) \/ BoxExits(b) PROVE BInv'
<1>1. /\ UNCHANGED <<launching, hand, list, warmPool, making, filling, rms, pass, excused>>
      /\ box[b] \in {"booting", "running"}
      /\ box' = [box EXCEPT ![b] = box'[b]]
      /\ box'[b] \in {"running", "stopped", "gone"}
      /\ box'[b] = "running" => box[b] = "booting"
  BY DEF BoxBoots, BoxExits, BInv, BoxTypeOK, Up
<1>2. /\ box' \in [Box -> {"unborn", "booting", "running", "stopped", "gone"}]
      /\ \A c \in Box : c # b => box'[c] = box[c]
  BY <1>1 DEF BInv, BoxTypeOK
<1>3. Onward
  BY <1>1, <1>2 DEF Onward, BInv, BoxTypeOK, Launched, Listable, UpNow
<1>4. InHands' = InHands /\ InLists' = InLists /\ Pooled' = Pooled /\ Owned' = Owned
  BY <1>1, Unmoved DEF Owned
<1>5. BoxTypeOK' /\ Apart' /\ Stages'
  BY <1>1, <1>2, <1>4 DEF BInv, BoxTypeOK, Apart, Stages
<1>6. Ending'
  BY <1>1, <1>3, <1>4 DEF BInv, Ending, Onward
<1> QED BY <1>1, <1>3, <1>4, <1>5, <1>6 DEF BInv, Onward

\* A launch that is over has put its container into the session.
LEMMA ListsKeeps ==
    ASSUME BInv, NEW s \in Sess, WarmRuns(s) \/ ColdReady(s) PROVE BInv'
<1>1. /\ UNCHANGED <<box, warmPool, making, filling, rms, pass, excused>>
      /\ launching[s] \in {"inspecting", "preparing"}
      /\ \E b \in hand[s] : box[b] = "running"
      /\ list' = [list EXCEPT ![s] = hand[s]] /\ hand' = [hand EXCEPT ![s] = {}]
      /\ launching' = [launching EXCEPT ![s] = "over"]
  BY DEF WarmRuns, ColdReady, Lists
<1>2. PICK b \in hand[s] : box[b] = "running"
  BY <1>1
<1>3. hand[s] = {b} /\ b \in Box /\ list[s] = {}
  BY <1>1, <1>2 DEF BInv, BoxTypeOK, Apart, Stages
<1>4. /\ hand' \in [Sess -> SUBSET Box] /\ list' \in [Sess -> SUBSET Box]
      /\ hand'[s] = {} /\ list'[s] = {b}
      /\ \A t \in Sess : t # s => hand'[t] = hand[t] /\ list'[t] = list[t]
  BY <1>1, <1>3 DEF BInv, BoxTypeOK
<1>5. \A t \in Sess : b \in hand[t] => t = s
  BY <1>2 DEF BInv, Apart
<1>6. InHands' = InHands \ {b} /\ InLists' = InLists \cup {b} /\ b \in InHands
  BY <1>3, <1>4, <1>5 DEF InHands, InLists
<1>7. /\ Pooled' = Pooled
      /\ Launched' = Launched /\ Listable' = Listable /\ UpNow' = UpNow
  BY <1>1, Unmoved
<1>8. Owned' = Owned
  BY <1>1, <1>6, <1>7 DEF Owned
<1>9. BoxTypeOK'
  BY <1>1, <1>4 DEF BInv, BoxTypeOK
<1>10. Apart'
  <2>1. \A t \in Sess : b \notin list[t]
    BY <1>3, <1>6 DEF BInv, Apart, InLists
  <2>2. \A t, u \in Sess : t # u => list'[t] \cap list'[u] = {}
    BY <1>4, <2>1 DEF BInv, Apart
  <2>3. \A t, u \in Sess : t # u => hand'[t] \cap hand'[u] = {}
    BY <1>4 DEF BInv, Apart
  <2>4. /\ \A t \in Sess : \A c, d \in hand'[t] : c = d
        /\ \A t \in Sess : \A c, d \in list'[t] : c = d
    BY <1>4 DEF BInv, Apart
  <2> QED BY <1>1, <1>6, <1>7, <2>2, <2>3, <2>4 DEF BInv, Apart
<1>11. Stages'
  BY <1>1, <1>4 DEF BInv, BoxTypeOK, Stages
<1>12. Ending'
  <2>1. b \in Listable
    BY <1>2, <1>3 DEF Listable
  <2>2. /\ \A e \in rms : e.s # s /\ e.s \in Sess
        /\ \A v \in pass : v.s # s /\ v.s \in Sess
    BY <1>1 DEF BInv, BoxTypeOK, Ending
  <2>3. \A e \in rms : launching'[e.s] = "over" /\ list'[e.s] = list[e.s]
    BY <1>1, <1>4, <2>2 DEF BInv, BoxTypeOK, Ending
  <2>4. \A v \in pass : launching'[v.s] = "over" /\ list'[v.s] = list[v.s]
    BY <1>1, <1>4, <2>2 DEF BInv, BoxTypeOK, Ending
  <2> QED BY <1>1, <1>6, <1>7, <2>1, <2>3, <2>4 DEF BInv, Ending
<1> QED BY <1>1, <1>7, <1>8, <1>9, <1>10, <1>11, <1>12 DEF BInv

\* A launch gives up its container, which is removed or kept to be looked at.
LEMMA GivesUpKeeps ==
    ASSUME BInv, NEW s \in Sess, WarmGivenUp(s) \/ ColdFails(s) PROVE BInv'
<1>1. /\ UNCHANGED <<list, warmPool, making, filling, rms, pass>>
      /\ launching[s] \in {"inspecting", "preparing"}
      /\ \E b \in hand[s] : DockerRemove(b) \/ CleansUp(b)
      /\ hand' = [hand EXCEPT ![s] = {}]
      /\ launching' = [launching EXCEPT ![s] = launching'[s]]
      /\ launching'[s] \in {"admitted", "over"}
  BY DEF WarmGivenUp, ColdFails, BInv, BoxTypeOK
<1>2. PICK b \in hand[s] : DockerRemove(b) \/ CleansUp(b)
  BY <1>1
<1>3. hand[s] = {b} /\ b \in Box
  BY <1>2 DEF BInv, BoxTypeOK, Apart
<1>4. b \in InHands /\ b \in Launched
  BY <1>3 DEF BInv, InHands, Owned
<1>5. Onward /\ (b \in UpNow' => b \in excused')
  BY <1>2, <1>4, DockerRemoves, Cleans
<1>6. /\ hand' \in [Sess -> SUBSET Box] /\ hand'[s] = {}
      /\ \A t \in Sess : t # s => hand'[t] = hand[t]
  BY <1>1 DEF BInv, BoxTypeOK
<1>7. \A t \in Sess : b \in hand[t] => t = s
  BY <1>2 DEF BInv, Apart
<1>8. InHands' = InHands \ {b} /\ InLists' = InLists /\ Pooled' = Pooled
  <2>1. InHands' = InHands \ {b}
    BY <1>3, <1>6, <1>7 DEF InHands
  <2> QED BY <1>1, <2>1, Unmoved
<1>9. Owned' \subseteq Owned /\ Owned \subseteq Owned' \cup {b}
  BY <1>1, <1>8 DEF Owned
<1>10. BoxTypeOK'
  BY <1>1, <1>5, <1>6 DEF BInv, BoxTypeOK, Onward
<1>11. Apart'
  BY <1>1, <1>6, <1>8 DEF BInv, Apart
<1>12. Stages'
  BY <1>1, <1>6 DEF BInv, BoxTypeOK, Stages
<1>13. Ending'
  <2>1. /\ \A e \in rms : e.s # s /\ e.s \in Sess
        /\ \A v \in pass : v.s # s /\ v.s \in Sess
    BY <1>1 DEF BInv, BoxTypeOK, Ending
  <2>2. /\ \A e \in rms : launching'[e.s] = "over"
        /\ \A v \in pass : launching'[v.s] = "over"
    BY <1>1, <2>1 DEF BInv, BoxTypeOK, Ending
  <2> QED BY <1>1, <1>5, <1>8, <2>2 DEF BInv, Ending, Onward
<1> QED BY <1>5, <1>9, <1>10, <1>11, <1>12, <1>13 DEF BInv, Onward

\* docker run makes a container that nobody has.
LEMMA RunsColdKeeps ==
    ASSUME BInv, NEW s \in Sess, NEW b \in Box, RunsCold(s, b) PROVE BInv'
<1>1. /\ UNCHANGED <<list, warmPool, making, filling, rms, pass, excused>>
      /\ launching[s] = "admitted" /\ box[b] = "unborn"
      /\ box' = [box EXCEPT ![b] = "booting"]
      /\ hand' = [hand EXCEPT ![s] = {b}]
      /\ launching' = [launching EXCEPT ![s] = "preparing"]
  BY DEF RunsCold, NewBox
<1>2. /\ box' \in [Box -> {"unborn", "booting", "running", "stopped", "gone"}]
      /\ box'[b] = "booting" /\ \A c \in Box : c # b => box'[c] = box[c]
  BY <1>1 DEF BInv, BoxTypeOK
<1>3. /\ Launched' = Launched \cup {b} /\ UpNow' = UpNow \cup {b}
      /\ Listable' = Listable /\ b \notin Launched
  BY <1>1, <1>2 DEF Launched, UpNow, Listable
<1>4. b \notin Owned
  BY <1>3 DEF BInv
<1>5. hand[s] = {}
  BY <1>1 DEF BInv, Stages
<1>6. /\ hand' \in [Sess -> SUBSET Box] /\ hand'[s] = {b}
      /\ \A t \in Sess : t # s => hand'[t] = hand[t]
  BY <1>1 DEF BInv, BoxTypeOK
<1>7. InHands' = InHands \cup {b} /\ InLists' = InLists /\ Pooled' = Pooled
  <2>1. InHands' = InHands \cup {b}
    BY <1>5, <1>6 DEF InHands
  <2> QED BY <1>1, <2>1, Unmoved
<1>8. Owned' = Owned \cup {b}
  BY <1>1, <1>7 DEF Owned
<1>9. BoxTypeOK'
  BY <1>1, <1>2, <1>6 DEF BInv, BoxTypeOK
<1>10. Apart'
  <2>1. b \notin InHands /\ b \notin InLists /\ b \notin making /\ b \notin Pooled
    BY <1>4 DEF Owned
  <2>2. \A t \in Sess : b \notin hand[t]
    BY <2>1 DEF InHands
  <2>3. \A t, u \in Sess : t # u => hand'[t] \cap hand'[u] = {}
    BY <1>6, <2>2 DEF BInv, Apart
  <2> QED BY <1>1, <1>6, <1>7, <2>1, <2>3 DEF BInv, Apart
<1>11. Stages'
  BY <1>1, <1>6 DEF BInv, BoxTypeOK, Stages
<1>12. Ending'
  <2>1. /\ \A e \in rms : e.s # s /\ e.s \in Sess
        /\ \A v \in pass : v.s # s /\ v.s \in Sess
    BY <1>1 DEF BInv, BoxTypeOK, Ending
  <2>2. /\ \A e \in rms : launching'[e.s] = "over"
        /\ \A v \in pass : launching'[v.s] = "over"
    BY <1>1, <2>1 DEF BInv, BoxTypeOK, Ending
  <2>3. \A v \in pass : v.b # b
    BY <1>1 DEF BInv, Ending, Listable
  <2> QED BY <1>1, <1>3, <1>7, <2>2, <2>3 DEF BInv, Ending
<1> QED BY <1>1, <1>3, <1>8, <1>9, <1>10, <1>11, <1>12 DEF BInv

\* A refill makes containers that nobody has.
LEMMA FillBeginsKeeps == ASSUME BInv, FillBegins PROVE BInv'
<1>1. PICK S \in SUBSET {b \in Box : box[b] = "unborn"} :
        /\ making' = S
        /\ box' = [b \in Box |-> IF b \in S THEN "booting" ELSE box[b]]
  BY DEF FillBegins
<1>2. /\ UNCHANGED <<launching, hand, list, warmPool, rms, pass, excused>>
      /\ making = {} /\ filling' = TRUE
  BY DEF FillBegins, BInv, Stages
<1>3. /\ box' \in [Box -> {"unborn", "booting", "running", "stopped", "gone"}]
      /\ \A b \in S : box'[b] = "booting" /\ box[b] = "unborn" /\ b \in Box
      /\ \A b \in Box : b \notin S => box'[b] = box[b]
  BY <1>1 DEF BInv, BoxTypeOK
<1>4. /\ Launched' = Launched \cup S /\ UpNow' = UpNow \cup S
      /\ Listable' = Listable /\ Launched \cap S = {}
  BY <1>3 DEF Launched, UpNow, Listable
<1>5. Owned \cap S = {}
  BY <1>4 DEF BInv
<1>6. /\ InHands' = InHands /\ InLists' = InLists /\ Pooled' = Pooled
      /\ Owned' = Owned \cup S
  BY <1>1, <1>2, Unmoved DEF Owned
<1>7. BoxTypeOK'
  BY <1>1, <1>2, <1>3 DEF BInv, BoxTypeOK
<1>8. Apart'
  BY <1>1, <1>2, <1>5, <1>6 DEF BInv, Apart, Owned
<1>9. Stages'
  BY <1>1, <1>2 DEF BInv, Stages
<1>10. Ending'
  <2>1. \A v \in pass : v.b \notin S
    BY <1>3 DEF BInv, Ending, Listable
  <2> QED BY <1>2, <1>4, <1>6, <2>1 DEF BInv, Ending
<1> QED BY <1>2, <1>4, <1>6, <1>7, <1>8, <1>9, <1>10 DEF BInv

LEMMA WarmReadyKeeps == ASSUME BInv, NEW b \in Box, WarmReady(b) PROVE BInv'
<1>1. /\ UNCHANGED <<box, launching, hand, list, filling, rms, pass, excused>>
      /\ b \in making /\ making' = making \ {b} /\ warmPool' = Append(warmPool, b)
  BY DEF WarmReady
<1>2. warmPool \in Seq(Box) /\ IsInjective(warmPool) /\ b \notin Pooled
  BY <1>1 DEF BInv, BoxTypeOK, Apart
<1>3. /\ warmPool' \in Seq(Box) /\ Pooled' = Pooled \cup {b} /\ IsInjective(warmPool')
  BY <1>1, <1>2, LongerList DEF Pooled
<1>4. /\ InHands' = InHands /\ InLists' = InLists
      /\ Launched' = Launched /\ Listable' = Listable /\ UpNow' = UpNow
  BY <1>1, Unmoved
<1>5. Owned' = Owned
  BY <1>1, <1>3, <1>4 DEF Owned
<1>6. BoxTypeOK' /\ Stages' /\ Ending'
  BY <1>1, <1>3, <1>4 DEF BInv, BoxTypeOK, Stages, Ending
<1>7. Apart'
  BY <1>1, <1>3, <1>4 DEF BInv, Apart
<1> QED BY <1>1, <1>4, <1>5, <1>6, <1>7 DEF BInv

LEMMA WarmFailsKeeps == ASSUME BInv, NEW b \in Box, WarmFails(b) PROVE BInv'
<1>1. /\ UNCHANGED <<launching, hand, list, warmPool, filling, rms, pass>>
      /\ b \in making /\ making' = making \ {b} /\ CleansUp(b)
  BY DEF WarmFails
<1>2. b \in Launched
  BY <1>1 DEF BInv, Owned
<1>3. Onward /\ (b \in UpNow' => b \in excused')
  BY <1>1, <1>2, Cleans
<1>4. InHands' = InHands /\ InLists' = InLists /\ Pooled' = Pooled
  BY <1>1, Unmoved
<1>5. Owned' \subseteq Owned /\ Owned \subseteq Owned' \cup {b}
  BY <1>1, <1>4 DEF Owned
<1>6. BoxTypeOK' /\ Stages' /\ Ending'
  BY <1>1, <1>3, <1>4 DEF BInv, BoxTypeOK, Stages, Ending, Onward
<1>7. Apart'
  BY <1>1, <1>4 DEF BInv, Apart
<1> QED BY <1>3, <1>5, <1>6, <1>7 DEF BInv, Onward

LEMMA FillDoneKeeps == ASSUME BInv, FillDone PROVE BInv'
<1>1. /\ UNCHANGED <<box, launching, hand, list, warmPool, making, rms, pass, excused>>
      /\ making = {} /\ filling' = FALSE
  BY DEF FillDone
<1>2. /\ InHands' = InHands /\ InLists' = InLists /\ Pooled' = Pooled
      /\ Launched' = Launched /\ Listable' = Listable /\ UpNow' = UpNow
  BY <1>1, Unmoved
<1>3. Owned' = Owned
  BY <1>1, <1>2 DEF Owned
<1>4. BoxTypeOK' /\ Stages'
  BY <1>1, <1>2 DEF BInv, BoxTypeOK, Stages
<1>5. Ending' /\ Apart'
  BY <1>1, <1>2 DEF BInv, Ending, Apart
<1> QED BY <1>1, <1>2, <1>3, <1>4, <1>5 DEF BInv

\* Terminations begin: of a caller, or of the monitor after a measurement.
LEMMA EndsKeeps ==
    ASSUME BInv, \/ \E s \in Sess : Ends(s)
                 \/ \E v \in pass : Measures(v)
    PROVE  BInv'
<1>1. /\ UNCHANGED <<box, launching, hand, list, warmPool, making, filling, excused>>
      /\ pass' \subseteq pass
      /\ \/ rms' = rms
         \/ \E s \in Sess : \E b \in list[s] : rms' = rms \cup {[s |-> s, b |-> b]}
  BY DEF Ends, Measures, BInv, BoxTypeOK
<1>2. /\ InHands' = InHands /\ InLists' = InLists /\ Pooled' = Pooled
      /\ Launched' = Launched /\ Listable' = Listable /\ UpNow' = UpNow
  BY <1>1, Unmoved
<1>3. Owned' = Owned
  BY <1>1, <1>2 DEF Owned
<1>4. ASSUME NEW e \in rms'
      PROVE  /\ e \in [s : Sess, b : Box]
             /\ launching[e.s] = "over" /\ list[e.s] \subseteq {e.b}
             /\ e.b \in Listable
  <2>0. \A x \in rms : /\ x \in [s : Sess, b : Box]
                       /\ launching[x.s] = "over" /\ list[x.s] \subseteq {x.b}
                       /\ x.b \in Listable
    BY DEF BInv, BoxTypeOK, Ending
  <2>1. CASE e \in rms
    BY <2>0, <2>1
  <2>2. ASSUME NEW s \in Sess, NEW b \in list[s], e = [s |-> s, b |-> b]
        PROVE  /\ e \in [s : Sess, b : Box]
               /\ launching[e.s] = "over" /\ list[e.s] \subseteq {e.b}
               /\ e.b \in Listable
    <3>1. b \in Box /\ list[s] = {b} /\ launching[s] = "over" /\ b \in InLists
      BY DEF BInv, BoxTypeOK, Apart, Stages, InLists
    <3>2. b \in Listable
      BY <3>1 DEF BInv, Ending
    <3> QED BY <2>2, <3>1, <3>2
  <2> QED BY <1>1, <2>1, <2>2
<1>5. BoxTypeOK' /\ Stages' /\ Apart'
  BY <1>1, <1>2, <1>4 DEF BInv, BoxTypeOK, Stages, Apart
<1>6. Ending'
  BY <1>1, <1>2, <1>4 DEF BInv, Ending
<1> QED BY <1>1, <1>2, <1>3, <1>5, <1>6 DEF BInv

\* A session is dropped with its only container, which is removed, has ended,
\* or is excused.
LEMMA DropsKeep ==
    ASSUME BInv, Onward, NEW s \in Sess, NEW b \in Box,
           list[s] \subseteq {b}, b \in UpNow' => b \in excused',
           list' = [list EXCEPT ![s] = {}],
           UNCHANGED <<launching, hand, warmPool, making, filling>>,
           rms' \subseteq rms, pass' \subseteq pass
    PROVE  BInv'
<1>1. /\ list' \in [Sess -> SUBSET Box] /\ list'[s] = {}
      /\ \A t \in Sess : t # s => list'[t] = list[t]
  BY DEF BInv, BoxTypeOK
<1>2. InHands' = InHands /\ Pooled' = Pooled
  BY Unmoved
<1>3. InLists' \subseteq InLists /\ InLists \subseteq InLists' \cup {b}
  BY <1>1 DEF InLists
<1>4. Owned' \subseteq Owned /\ Owned \subseteq Owned' \cup {b}
  BY <1>2, <1>3 DEF Owned
<1>5. BoxTypeOK'
  BY <1>1 DEF BInv, BoxTypeOK, Onward
<1>6. Apart'
  BY <1>1, <1>2, <1>3 DEF BInv, Apart
<1>7. Stages'
  BY <1>1 DEF BInv, Stages
<1>8. Ending'
  <2>1. \A t \in Sess : list'[t] \subseteq list[t]
    BY <1>1
  <2>2. (\A e \in rms : e.s \in Sess) /\ (\A v \in pass : v.s \in Sess)
    BY DEF BInv, BoxTypeOK
  <2> QED BY <1>3, <2>1, <2>2 DEF BInv, Ending, Onward
<1> QED BY <1>4, <1>5, <1>6, <1>7, <1>8 DEF BInv, Onward

LEMMA RemovesKeeps == ASSUME BInv, NEW e \in rms, Removes(e) PROVE BInv'
<1>1. /\ UNCHANGED <<launching, hand, warmPool, making, filling, pass>>
      /\ list' = [list EXCEPT ![e.s] = {}] /\ rms' = rms \ {e}
      /\ DockerRemove(e.b)
  BY DEF Removes
<1>2. /\ e.s \in Sess /\ e.b \in Box /\ list[e.s] \subseteq {e.b}
      /\ e.b \in Launched
  BY DEF BInv, BoxTypeOK, Ending, Listable, Launched
<1>3. Onward /\ (e.b \in UpNow' => e.b \in excused')
  BY <1>1, <1>2, DockerRemoves
<1> QED BY <1>1, <1>2, <1>3, DropsKeep

LEMMA MonitorDropsKeeps == ASSUME BInv, NEW v \in pass, Drops(v) PROVE BInv'
<1>1. /\ UNCHANGED <<box, launching, hand, warmPool, making, filling, rms, excused>>
      /\ list' = [list EXCEPT ![v.s] = {}] /\ pass' = pass \ {v} /\ v.dead
  BY DEF Drops
<1>2. Onward
  BY <1>1, Unmoved DEF Onward, BInv, BoxTypeOK
<1>3. /\ v.s \in Sess /\ v.b \in Box /\ list[v.s] \subseteq {v.b}
      /\ v.b \in excused \/ v.b \notin UpNow
  BY <1>1 DEF BInv, BoxTypeOK, Ending
<1>4. v.b \in UpNow' => v.b \in excused'
  BY <1>1, <1>3, Unmoved
<1> QED BY <1>1, <1>2, <1>3, <1>4, DropsKeep

\* A session found dead has a container that has ended, or one whose inspection
\* has failed.
LEMMA LooksKeeps == ASSUME BInv, Looks PROVE BInv'
<1> DEFINE boxOf(s) == CHOOSE b \in list[s] : TRUE
<1>1. /\ UNCHANGED <<box, launching, hand, list, warmPool, making, filling, rms>>
      /\ \E failed \in SUBSET ListedSess :
           /\ pass' = {[s |-> s, b |-> boxOf(s),
                        dead |-> (s \in failed \/ box[boxOf(s)] # "running")] : s \in ListedSess}
           /\ excused' = excused \cup {boxOf(s) : s \in failed}
  BY DEF Looks
<1>2. PICK failed \in SUBSET ListedSess :
        /\ pass' = {[s |-> s, b |-> boxOf(s),
                     dead |-> (s \in failed \/ box[boxOf(s)] # "running")] : s \in ListedSess}
        /\ excused' = excused \cup {boxOf(s) : s \in failed}
  BY <1>1
<1>3. \A s \in ListedSess :
        /\ s \in Sess /\ boxOf(s) \in Box /\ list[s] = {boxOf(s)} /\ launching[s] = "over"
        /\ boxOf(s) \in Listable
  <2> SUFFICES ASSUME NEW s \in ListedSess
               PROVE  /\ s \in Sess /\ boxOf(s) \in Box /\ list[s] = {boxOf(s)}
                      /\ launching[s] = "over" /\ boxOf(s) \in Listable
    OBVIOUS
  <2>1. s \in Sess /\ list[s] # {} /\ boxOf(s) \in list[s]
    BY DEF ListedSess
  <2> HIDE DEF boxOf
  <2>2. boxOf(s) \in InLists /\ boxOf(s) \in Box
    BY <2>1 DEF BInv, BoxTypeOK, InLists
  <2> QED BY <2>1, <2>2 DEF BInv, Apart, Stages, Ending
<1> HIDE DEF boxOf
<1>4. \A v \in pass' : /\ v \in [s : Sess, b : Box, dead : BOOLEAN]
                       /\ launching[v.s] = "over" /\ list[v.s] \subseteq {v.b}
                       /\ v.b \in Listable
                       /\ v.dead => v.b \in excused' \/ v.b \notin UpNow
  <2>1. SUFFICES ASSUME NEW s \in ListedSess, NEW dead \in BOOLEAN,
                        dead = (s \in failed \/ box[boxOf(s)] # "running"),
                        NEW v, v = [s |-> s, b |-> boxOf(s), dead |-> dead]
                 PROVE  /\ v \in [s : Sess, b : Box, dead : BOOLEAN]
                        /\ launching[v.s] = "over" /\ list[v.s] \subseteq {v.b}
                        /\ v.b \in Listable
                        /\ v.dead => v.b \in excused' \/ v.b \notin UpNow
    BY <1>2
  <2>2. v.s = s /\ v.b = boxOf(s) /\ v.dead = dead
    BY <2>1
  <2>3. dead => boxOf(s) \in excused' \/ boxOf(s) \notin UpNow
    BY <1>2, <1>3, <2>1 DEF Listable, UpNow
  <2> QED BY <1>3, <2>1, <2>2, <2>3
<1>5. excused \subseteq excused' /\ excused' \subseteq Box
  BY <1>2, <1>3 DEF BInv, BoxTypeOK
<1>6. /\ InHands' = InHands /\ InLists' = InLists /\ Pooled' = Pooled
      /\ Launched' = Launched /\ Listable' = Listable /\ UpNow' = UpNow
  BY <1>1, Unmoved
<1>7. Owned' = Owned
  BY <1>1, <1>6 DEF Owned
<1>8. BoxTypeOK' /\ Stages' /\ Apart'
  BY <1>1, <1>4, <1>5, <1>6 DEF BInv, BoxTypeOK, Stages, Apart
<1>9. Ending'
  BY <1>1, <1>4, <1>6 DEF BInv, Ending
<1> QED BY <1>5, <1>6, <1>7, <1>8, <1>9 DEF BInv

LEMMA BInvNext == BInv /\ [BoxNext]_boxVars => BInv'
<1> SUFFICES ASSUME BInv, [BoxNext]_boxVars PROVE BInv'
  OBVIOUS
<1>1. CASE BoxNext
  BY <1>1, BoxLaunchKeeps, TakesWarmKeeps, BoxesKeep, ListsKeeps, GivesUpKeeps,
     RunsColdKeeps, FillBeginsKeeps, WarmReadyKeeps, WarmFailsKeeps, FillDoneKeeps,
     EndsKeeps, RemovesKeeps, MonitorDropsKeeps, LooksKeeps DEF BoxNext
<1>2. CASE UNCHANGED boxVars
  <2>1. /\ UNCHANGED <<box, launching, hand, list, warmPool, making, filling, rms,
                       pass, excused>>
    BY <1>2 DEF boxVars
  <2>2. /\ InHands' = InHands /\ InLists' = InLists /\ Pooled' = Pooled
        /\ Launched' = Launched /\ Listable' = Listable /\ UpNow' = UpNow
    BY <2>1, Unmoved
  <2> QED BY <2>1, <2>2 DEF BInv, BoxTypeOK, Apart, Stages, Ending, Owned
<1> QED BY <1>1, <1>2

LEMMA BoxStaysInvariant == BoxSpec => []BInv
BY BInvInit, BInvNext, PTL DEF BoxSpec

\* The variables keep their types, with any number of sessions and containers.
THEOREM BoxTypesKept == BoxSpec => []BoxTypeOK
<1>1. BInv => BoxTypeOK
  BY DEF BInv
<1> QED BY <1>1, BoxStaysInvariant, PTL

LEMMA OwnersApart == BInv => ContainersHaveOneOwner
<1> SUFFICES ASSUME BInv, NEW b \in Box, Up(b)
             PROVE  \/ Cardinality(Owners(b)) = 1
                    \/ b \in excused /\ Owners(b) = {}
  BY DEF ContainersHaveOneOwner
<1>1. b \in Owned \/ b \in excused
  BY DEF BInv, UpNow, Up
<1>2. \A i \in DOMAIN warmPool : warmPool[i] \in Pooled
  BY DEF Pooled, ToSet
<1>3. \A o \in Owners(b) :
        \/ \E s \in Sess : o = <<"launch", s>> /\ b \in hand[s]
        \/ \E s \in Sess : o = <<"session", s>> /\ b \in list[s]
        \/ \E i \in DOMAIN warmPool : o = <<"pool", i>> /\ warmPool[i] = b
        \/ o = <<"fill", b>> /\ b \in making
  BY DEF Owners
<1>4. ASSUME NEW o \in Owners(b), NEW p \in Owners(b) PROVE o = p
  <2>1. ASSUME NEW s \in Sess, NEW t \in Sess, b \in hand[s], b \in hand[t] PROVE s = t
    BY <2>1 DEF BInv, Apart
  <2>2. ASSUME NEW s \in Sess, NEW t \in Sess, b \in list[s], b \in list[t] PROVE s = t
    BY <2>2 DEF BInv, Apart
  <2>3. ASSUME NEW i \in DOMAIN warmPool, NEW j \in DOMAIN warmPool,
               warmPool[i] = b, warmPool[j] = b
        PROVE  i = j
    BY <2>3 DEF BInv, Apart, IsInjective
  <2>4. /\ (\E s \in Sess : b \in hand[s]) => b \in InHands
        /\ (\E s \in Sess : b \in list[s]) => b \in InLists
        /\ (\E i \in DOMAIN warmPool : warmPool[i] = b) => b \in Pooled
    BY <1>2 DEF InHands, InLists
  <2>5. /\ ~(b \in InHands /\ b \in InLists) /\ ~(b \in InHands /\ b \in Pooled)
        /\ ~(b \in InHands /\ b \in making) /\ ~(b \in InLists /\ b \in Pooled)
        /\ ~(b \in InLists /\ b \in making) /\ ~(b \in Pooled /\ b \in making)
    BY DEF BInv, Apart
  <2> QED BY <1>3, <2>1, <2>2, <2>3, <2>4, <2>5
<1>5. CASE Owners(b) = {}
  <2>1. b \notin InHands /\ b \notin InLists
    BY <1>5 DEF Owners, InHands, InLists
  <2>2. b \notin making
    BY <1>5 DEF Owners
  <2>3. ASSUME NEW i \in DOMAIN warmPool, warmPool[i] = b PROVE FALSE
    BY <1>5, <2>3 DEF Owners
  <2>4. b \notin Owned
    BY <2>1, <2>2, <2>3 DEF Owned, Pooled, ToSet
  <2> QED BY <1>1, <1>5, <2>4
<1>6. CASE Owners(b) # {}
  <2>1. PICK o : Owners(b) = {o}
    BY <1>4, <1>6
  <2> QED BY <2>1, FS_Singleton
<1> QED BY <1>5, <1>6

\* However launches, refills, failures, passes of the monitor and ends of
\* sessions interleave, no container is used twice, and none that runs is
\* forgotten unless a docker command failed on it.
THEOREM ContainersStayOwned == BoxSpec => []ContainersHaveOneOwner
BY OwnersApart, BoxStaysInvariant, PTL

-------------------------------------------------------------------------------
(***************************************************************************)
(* CpuPolicy: a VM in `sure` that lives and is listed has at most one      *)
(* operation that writes to it, which has not failed and writes the policy *)
(* that is right now; the nice value is that one as soon as the VM is no   *)
(* longer to do, and without an operation so is the cgroup.                *)
(***************************************************************************)
Right(m) == IF mode = "always" THEN rank[m] ELSE FluidPolicy(activity[m], GateOpen(activity))

Touching(m) == {i \in Running : mode = "hybrid" \/ op[i].vm = m}

Settles(m) ==
    /\ Right(m) # NoPolicy
    /\ \A i, j \in Touching(m) : i = j
    /\ Touching(m) = {} =>
         nice[m] = Right(m) /\ (mode \in Cgroups => share[m] = Right(m))
    /\ \A i \in Touching(m) : /\ ~op[i].failed
                              /\ op[i].to[m] = Right(m)
                              /\ m \notin op[i].todo => nice[m] = Right(m)

Counted == {m \in sure : activity[m] # "none" /\ alive[m]}

CpuInv ==
    /\ CpuTypeOK
    /\ mode = "always" => \A i \in Running :
         /\ op[i].todo \subseteq {op[i].vm}
         /\ \A n \in VM : n # op[i].vm => op[i].to[n] = NoPolicy
    /\ mode # "off" => \A m \in Counted : Settles(m)

LEMMA NoOpIsNone == NoOp \notin Op
<1>1. \A o \in Op : "vm" \in DOMAIN o
  BY DEF Op
<1>2. DOMAIN NoOp = {"to"}
  BY DEF NoOp
<1> QED BY <1>1, <1>2

LEMMA OpTypes ==
  ASSUME CpuTypeOK, NEW i \in Running
  PROVE  /\ i \in Ops /\ op[i] \in Op /\ op[i].vm \in VM /\ op[i].todo \subseteq VM
         /\ op[i].to \in [VM -> Policy] /\ op[i].failed \in BOOLEAN
         /\ op[i].awaited \in BOOLEAN
BY DEF CpuTypeOK, Running, Op

LEMMA Policies ==
  ASSUME NEW a \in Activity, NEW o \in BOOLEAN
  PROVE  /\ Own(a) \in Policy /\ Overflow(a) \in Policy /\ Neutral(a) \in Policy
         /\ FluidPolicy(a, o) \in Policy /\ NoPolicy \in Policy
         /\ Own(a) # NoPolicy /\ Overflow(a) # NoPolicy /\ Neutral(a) # NoPolicy
         /\ FluidPolicy(a, o) # NoPolicy
<1>1. /\ Own(a) \in Policy /\ Neutral(a) \in Policy /\ <<"overflow", a>> \in Policy
      /\ NoPolicy \in Policy
  BY DEF Own, Neutral, Policy, NoPolicy
<1>2. /\ Own(a) # NoPolicy /\ Neutral(a) # NoPolicy /\ <<"overflow", a>> # NoPolicy
  BY DEF Own, Neutral, NoPolicy
<1> QED BY <1>1, <1>2 DEF Overflow, FluidPolicy

LEMMA Ranks ==
  ASSUME CpuTypeOK, NEW m \in VM, NEW a \in Activity
  PROVE  RankOf(m, a) \in Policy /\ RankOf(m, a) # NoPolicy
<1>1. RankOf(m, a) \in {Neutral(a), FluidPolicy(a, GateOpen([activity EXCEPT ![m] = a])),
                        Overflow(a), Own(a)}
  BY DEF RankOf, CpuTypeOK
<1>2. GateOpen([activity EXCEPT ![m] = a]) \in BOOLEAN
  BY DEF GateOpen
<1> QED BY <1>1, <1>2, Policies

LEMMA CpuInvInit == CpuInit => CpuInv
<1> SUFFICES ASSUME CpuInit PROVE CpuInv
  OBVIOUS
<1>1. NoPolicy \in Policy
  BY DEF Policy
<1>2. CpuTypeOK
  BY <1>1 DEF CpuInit, CpuTypeOK
<1>3. Running = {} /\ Counted = {}
  BY DEF CpuInit, Running, Counted
<1> QED BY <1>2, <1>3 DEF CpuInv

\* An operation on m begins, or in mode "off" none.
LEMMA SetTypes ==
  ASSUME CpuInv, NEW m \in VM, NEW a \in Activity, NEW w \in BOOLEAN,
         SetSchedulerState(m, a, w), UNCHANGED <<mode, nice, share>>,
         alive' \in {alive, [alive EXCEPT ![m] = TRUE]}
  PROVE  CpuTypeOK'
<1>1. /\ activity' = [activity EXCEPT ![m] = a] /\ rank' = [rank EXCEPT ![m] = RankOf(m, a)]
  BY DEF SetSchedulerState
<1>2. /\ activity' \in [VM -> Activity \cup {"none"}] /\ rank' \in [VM -> Policy]
      /\ alive' \in [VM -> BOOLEAN]
  BY <1>1, Ranks DEF CpuInv, CpuTypeOK
<1>3. CASE mode = "off"
  BY <1>2, <1>3 DEF SetSchedulerState, CpuInv, CpuTypeOK
<1>4. CASE mode # "off"
  <2>1. PICK i \in Ops : op' = [op EXCEPT ![i] =
                        [vm |-> m, todo |-> Refreshes(m, activity'),
                         to |-> Targets(Refreshes(m, activity'), activity', RankOf(m, a)),
                         failed |-> FALSE, awaited |-> w]]
    BY <1>1, <1>4 DEF SetSchedulerState
  <2>2. Refreshes(m, activity') \subseteq VM
    BY DEF Refreshes, Listed
  <2>3. Targets(Refreshes(m, activity'), activity', RankOf(m, a)) \in [VM -> Policy]
    <3>1. ASSUME NEW n \in Refreshes(m, activity'), mode # "always"
          PROVE  FluidPolicy(activity'[n], GateOpen(activity')) \in Policy
      <4>1. activity'[n] \in Activity
        BY <1>1, <1>2, <2>2 DEF Refreshes, Listed, Activity, High, Idle, CpuInv, CpuTypeOK
      <4>2. GateOpen(activity') \in BOOLEAN
        BY DEF GateOpen
      <4> QED BY <4>1, <4>2, Policies
    <3>2. NoPolicy \in Policy
      BY DEF Policy
    <3> QED BY <3>1, <3>2, Ranks DEF Targets, CpuInv
  <2>4. op' \in [Ops -> Op \cup {NoOp}]
    BY <2>1, <2>2, <2>3 DEF CpuInv, CpuTypeOK, Op
  <2>5. sure' \subseteq VM
    BY <1>4 DEF SetSchedulerState, CpuInv, CpuTypeOK
  <2> QED BY <1>2, <2>4, <2>5 DEF CpuInv, CpuTypeOK
<1> QED BY <1>3, <1>4

LEMMA SetKeeps ==
  ASSUME CpuInv, NEW m \in VM, NEW a \in Activity, NEW w \in BOOLEAN,
         SetSchedulerState(m, a, w), UNCHANGED <<mode, nice, share>>,
         alive' \in {alive, [alive EXCEPT ![m] = TRUE]}
  PROVE  CpuInv'
<1>1. CpuTypeOK'
  BY SetTypes
<1>2. CASE mode = "off"
  BY <1>1, <1>2 DEF CpuInv
<1>3. CASE mode # "off"
  <2>1. /\ activity' = [activity EXCEPT ![m] = a] /\ rank' = [rank EXCEPT ![m] = RankOf(m, a)]
    BY DEF SetSchedulerState
  <2>2. PICK t : t = Targets(Refreshes(m, activity'), activity', RankOf(m, a))
    OBVIOUS
  <2>3. PICK i \in Ops : /\ op[i] = NoOp
                         /\ op' = [op EXCEPT ![i] =
                              [vm |-> m, todo |-> Refreshes(m, activity'), to |-> t,
                               failed |-> FALSE, awaited |-> w]]
    BY <1>3, <2>1, <2>2 DEF SetSchedulerState
  <2>4. /\ sure' = IF Overlaps(m) THEN sure \ (IF mode = "hybrid" THEN VM ELSE {m})
                                  ELSE sure \cup (IF mode = "hybrid" THEN VM ELSE {m})
    BY <1>3 DEF SetSchedulerState
  <2>5. /\ op'[i].vm = m /\ op'[i].todo = Refreshes(m, activity') /\ op'[i].to = t
        /\ ~op'[i].failed
        /\ \A j \in Ops : j # i => op'[j] = op[j]
    BY <2>3 DEF CpuInv, CpuTypeOK
  <2>6. i \notin Running /\ Running' = Running \cup {i}
    <3>1. op'[i] \in Op
      <4>1. "vm" \in DOMAIN op'[i]
        BY <2>3 DEF CpuInv, CpuTypeOK
      <4>2. DOMAIN NoOp = {"to"}
        BY DEF NoOp
      <4> QED BY <1>1, <4>1, <4>2 DEF CpuTypeOK
    <3>2. op'[i] # NoOp
      BY <3>1, NoOpIsNone
    <3> QED BY <2>3, <2>5, <3>2 DEF Running
  <2>7. /\ rank'[m] = RankOf(m, a) /\ activity'[m] = a
        /\ \A n \in VM : n # m => rank'[n] = rank[n] /\ activity'[n] = activity[n] /\ alive'[n] = alive[n]
    BY <2>1 DEF CpuInv, CpuTypeOK
  <2>8. CASE mode = "always"
    <3>1. Refreshes(m, activity') = {m}
      BY <2>8 DEF Refreshes
    <3>2. t[m] = rank'[m] /\ \A n \in VM : n # m => t[n] = NoPolicy
      BY <2>2, <2>7, <2>8, <3>1 DEF Targets
    <3>3. \A j \in Running' :
            /\ op'[j].todo \subseteq {op'[j].vm}
            /\ \A n \in VM : n # op'[j].vm => op'[j].to[n] = NoPolicy
      BY <2>5, <2>6, <2>8, <3>1, <3>2, OpTypes DEF CpuInv
    <3>4. ASSUME NEW x \in Counted' PROVE Settles(x)'
      <4>1. x \in VM /\ x \in sure' /\ activity'[x] # "none" /\ alive'[x]
        BY <1>1 DEF Counted, CpuTypeOK
      <4>2. CASE x = m
        <5>1. ~Overlaps(m)
          BY <2>4, <2>8, <4>1, <4>2
        <5>2. Touching(m)' = {i}
          <6>1. \A j \in Running : op[j].vm # m /\ j \in Ops /\ j # i
            BY <2>6, <5>1 DEF Overlaps, Running
          <6> QED BY <2>5, <2>6, <2>8, <6>1 DEF Touching
        <5>3. Right(m)' = t[m] /\ t[m] # NoPolicy
          BY <2>7, <2>8, <3>2, Ranks DEF Right, CpuInv
        <5> QED BY <2>5, <3>1, <4>2, <5>2, <5>3 DEF Settles
      <4>3. CASE x # m
        <5>1. x \in Counted
          BY <2>4, <2>7, <2>8, <4>1, <4>3 DEF Counted
        <5>2. Settles(x)
          BY <1>3, <5>1 DEF CpuInv
        <5>3. Right(x)' = Right(x)
          BY <2>7, <2>8, <4>1, <4>3 DEF Right
        <5>4. Touching(x)' = Touching(x)
          <6>1. \A j \in Running : j \in Ops /\ j # i
            BY <2>6 DEF Running
          <6> QED BY <2>5, <2>6, <2>8, <4>3, <6>1 DEF Touching
        <5>5. \A j \in Touching(x) : op'[j] = op[j]
          BY <2>5, <2>6 DEF Touching, Running
        <5> QED BY <5>2, <5>3, <5>4, <5>5 DEF Settles
      <4> QED BY <4>2, <4>3
    <3> QED BY <1>1, <3>3, <3>4 DEF CpuInv
  <2>9. CASE mode = "hybrid"
    <3>1. ASSUME NEW x \in Counted' PROVE Settles(x)'
      <4>1. x \in VM /\ x \in sure' /\ activity'[x] # "none" /\ activity'[x] \in Activity
        BY <1>1 DEF Counted, CpuTypeOK
      <4>2. ~Overlaps(m)
        BY <2>4, <2>9, <4>1
      <4>3. Touching(x)' = {i}
        BY <2>6, <2>9, <4>2 DEF Overlaps, Touching
      <4>4. x \in Refreshes(m, activity')
        BY <2>9, <4>1 DEF Refreshes, Listed
      <4>5. t[x] = Right(x)'
        BY <2>2, <2>9, <4>1, <4>4 DEF Targets, Right
      <4>6. Right(x)' # NoPolicy
        <5>1. GateOpen(activity') \in BOOLEAN
          BY DEF GateOpen
        <5> QED BY <2>9, <4>1, <5>1, Policies DEF Right
      <4> QED BY <2>5, <4>3, <4>4, <4>5, <4>6 DEF Settles
    <3> QED BY <1>1, <2>9, <3>1 DEF CpuInv
  <2> QED BY <1>3, <2>8, <2>9, CpuAssumption DEF CpuAssumption, CpuInv, CpuTypeOK
<1> QED BY <1>2, <1>3

\* A VM that is no more a session's, or no more at all.
LEMMA GoneKeeps == ASSUME CpuInv, NEW m \in VM, VMDelisted(m) \/ VMDies(m) PROVE CpuInv'
<1>1. CpuTypeOK'
  BY Policies DEF VMDelisted, VMDies, CpuInv, CpuTypeOK, Policy
<1>2. UNCHANGED <<mode, op>> /\ Running' = Running
  BY DEF VMDelisted, VMDies, Running
<1>3. ASSUME NEW x \in Counted', mode # "off" PROVE Settles(x)'
  <2>1. x \in VM /\ x \in sure' /\ activity'[x] # "none" /\ alive'[x]
    BY <1>1 DEF Counted, CpuTypeOK
  <2>2. CASE VMDelisted(m)
    <3>1. mode # "hybrid" /\ x # m
      BY <2>1, <2>2 DEF VMDelisted, CpuInv, CpuTypeOK
    <3>2. mode = "always"
      BY <1>3, <3>1, CpuAssumption DEF CpuAssumption, CpuInv, CpuTypeOK
    <3>3. /\ UNCHANGED <<alive, nice, share, sure>>
          /\ rank'[x] = rank[x] /\ activity'[x] = activity[x]
      BY <2>1, <2>2, <3>1 DEF VMDelisted, CpuInv, CpuTypeOK
    <3>4. Settles(x)
      BY <1>3, <2>1, <3>3 DEF Counted, CpuInv
    <3> QED BY <1>2, <3>2, <3>3, <3>4 DEF Settles, Right, Touching
  <2>3. CASE VMDies(m)
    <3>1. x # m /\ x \in sure /\ UNCHANGED <<activity, rank>>
      BY <2>1, <2>3 DEF VMDies
    <3>2. alive'[x] = alive[x] /\ nice'[x] = nice[x] /\ share'[x] = share[x]
      BY <2>1, <2>3, <3>1 DEF VMDies, CpuInv, CpuTypeOK
    <3>3. Settles(x)
      BY <1>3, <2>1, <3>1, <3>2 DEF Counted, CpuInv
    <3> QED BY <1>2, <3>1, <3>2, <3>3 DEF Settles, Right, Touching
  <2> QED BY <2>2, <2>3
<1> QED BY <1>1, <1>2, <1>3 DEF CpuInv

\* One renice.
LEMMA ReniceKeeps == ASSUME CpuInv, NEW i \in Ops, NEW n \in VM, Renices(i, n) PROVE CpuInv'
<1>1. /\ i \in Running /\ n \in op[i].todo /\ UNCHANGED <<mode, activity, rank, alive, share>>
  BY DEF Renices
<1>2. PICK o : o = op[i]
  OBVIOUS
<1>3. /\ o \in Op /\ o.vm \in VM /\ o.todo \subseteq VM /\ o.to \in [VM -> Policy]
  BY <1>1, <1>2, OpTypes DEF CpuInv
<1>4. PICK f \in BOOLEAN :
        /\ op' = [op EXCEPT ![i] = [o EXCEPT !.todo = o.todo \ {n}, !.failed = f]]
        /\ alive[n] => f = o.failed
  <2>1. CASE alive[n]
    <3>1. o.failed \in BOOLEAN /\ o = [o EXCEPT !.failed = o.failed]
      BY <1>3 DEF Op
    <3>2. op' = [op EXCEPT ![i] = [o EXCEPT !.todo = o.todo \ {n}]]
      BY <1>2, <2>1 DEF Renices
    <3>3. [o EXCEPT !.todo = o.todo \ {n}] = [o EXCEPT !.todo = o.todo \ {n}, !.failed = o.failed]
      BY <1>3 DEF Op
    <3> QED BY <3>1, <3>2, <3>3
  <2>2. CASE ~alive[n]
    <3>1. op' = [op EXCEPT ![i] = [o EXCEPT !.todo = o.todo \ {n}, !.failed = TRUE]]
      BY <1>1, <1>2, <2>2 DEF Renices, CpuInv, CpuTypeOK, Running
    <3> QED BY <2>2, <3>1
  <2> QED BY <2>1, <2>2
<1>5. /\ op'[i] \in Op /\ op'[i].vm = o.vm /\ op'[i].todo = o.todo \ {n}
      /\ op'[i].to = o.to /\ op'[i].failed = f
      /\ \A j \in Ops : j # i => op'[j] = op[j]
  BY <1>3, <1>4 DEF CpuInv, CpuTypeOK, Op
<1>6. Running' = Running
  <2>1. op'[i] # NoOp
    BY <1>5, NoOpIsNone
  <2> QED BY <1>1, <1>5, <2>1 DEF Running
<1>7. CpuTypeOK'
  <2>1. op' \in [Ops -> Op \cup {NoOp}]
    BY <1>4, <1>5 DEF CpuInv, CpuTypeOK
  <2>2. nice' \in [VM -> Policy] /\ sure' \subseteq VM
    BY <1>2, <1>3 DEF Renices, CpuInv, CpuTypeOK
  <2> QED BY <1>1, <2>1, <2>2 DEF CpuInv, CpuTypeOK
<1>8. \A x : Right(x)' = Right(x)
  BY <1>1 DEF Right
<1>9. \A x : Touching(x)' = Touching(x)
  BY <1>1, <1>2, <1>5, <1>6 DEF Touching, Running
<1>10. ASSUME NEW x \in Counted', mode # "off" PROVE Settles(x)'
  <2>1. x \in VM /\ x \in sure' /\ x \in Counted
    BY <1>1, <1>7 DEF Counted, CpuTypeOK, Renices
  <2>2. Settles(x)
    BY <1>10, <2>1 DEF CpuInv
  <2>3. mode = "always" \/ mode = "hybrid"
    BY <1>10, CpuAssumption DEF CpuAssumption, CpuInv, CpuTypeOK
  <2>4. mode = "always" => o.todo \subseteq {o.vm} /\ n = o.vm
    BY <1>1, <1>2 DEF CpuInv
  <2>5. CASE alive[n]
    <3>1. nice' = [nice EXCEPT ![n] = o.to[n]] /\ nice'[n] = o.to[n]
          /\ \A y \in VM : y # n => nice'[y] = nice[y]
      BY <1>2, <1>3, <2>5 DEF Renices, CpuInv, CpuTypeOK
    <3>2. CASE i \in Touching(x)
      <4>1. o.to[x] = Right(x) /\ ~o.failed /\ (x \notin o.todo => nice[x] = Right(x))
        BY <1>2, <2>2, <3>2 DEF Settles
      <4>2. \A j \in Touching(x) : j = i
        BY <2>2, <3>2 DEF Settles
      <4>3. x \notin o.todo \ {n} => nice'[x] = Right(x)
        BY <2>1, <3>1, <4>1
      <4>4. /\ Right(x) # NoPolicy
        BY <2>2 DEF Settles
      <4>5. ~f
        BY <1>4, <2>5, <4>1
      <4> QED BY <1>5, <1>8, <1>9, <3>2, <4>1, <4>2, <4>3, <4>4, <4>5 DEF Settles
    <3>3. CASE i \notin Touching(x)
      <4>1. mode = "always" /\ x # o.vm
        BY <1>1, <1>2, <2>3, <3>3 DEF Touching
      <4>2. nice'[x] = nice[x]
        BY <2>1, <2>4, <3>1, <4>1
      <4>3. \A j \in Touching(x) : op'[j] = op[j]
        BY <1>5, <3>3 DEF Touching, Running
      <4> QED BY <1>1, <1>8, <1>9, <2>2, <4>2, <4>3 DEF Settles
    <3> QED BY <3>2, <3>3
  <2>6. CASE ~alive[n]
    <3>1. nice' = nice /\ mode = "always" /\ x # o.vm
      BY <1>2, <2>1, <2>3, <2>6 DEF Renices
    <3>2. i \notin Touching(x)
      BY <1>2, <3>1 DEF Touching
    <3>3. \A j \in Touching(x) : op'[j] = op[j]
      BY <1>5, <3>2 DEF Touching, Running
    <3> QED BY <1>1, <1>8, <1>9, <2>2, <3>1, <3>3 DEF Settles
  <2> QED BY <2>5, <2>6
<1>11. mode = "always" => \A j \in Running :
         /\ op'[j].todo \subseteq {op'[j].vm}
         /\ \A y \in VM : y # op'[j].vm => op'[j].to[y] = NoPolicy
  BY <1>2, <1>5 DEF CpuInv, Running
<1> QED BY <1>1, <1>6, <1>7, <1>10, <1>11 DEF CpuInv

\* The commands of an operation have ended.
LEMMA EndKeeps == ASSUME CpuInv, NEW i \in Ops, OpEnds(i) PROVE CpuInv'
<1>1. /\ i \in Running /\ op[i].todo = {} /\ op' = [op EXCEPT ![i] = NoOp]
      /\ UNCHANGED <<mode, alive, nice>>
  BY DEF OpEnds
<1>2. PICK o : o = op[i]
  OBVIOUS
<1>3. /\ o \in Op /\ o.vm \in VM /\ o.to \in [VM -> Policy]
  BY <1>1, <1>2, OpTypes DEF CpuInv
<1>4. PICK lost \in BOOLEAN :
        /\ activity' = [activity EXCEPT ![o.vm] = IF lost THEN "none" ELSE @]
        /\ rank' = [rank EXCEPT ![o.vm] = IF lost THEN NoPolicy ELSE @]
        /\ sure' = IF lost /\ mode = "hybrid" THEN {} ELSE sure
  <2>1. CASE op[i].awaited /\ op[i].failed /\ activity[o.vm] # "none"
    BY <1>2, <2>1 DEF OpEnds
  <2>2. CASE ~(op[i].awaited /\ op[i].failed /\ activity[o.vm] # "none")
    BY <1>2, <2>2 DEF OpEnds
  <2> QED BY <2>1, <2>2
<1>5. share' = [n \in VM |-> IF ~o.failed /\ mode \in Cgroups /\ alive[n]
                                /\ o.to[n] # NoPolicy
                             THEN o.to[n] ELSE share[n]]
  BY <1>2 DEF OpEnds
<1>6. /\ op'[i] = NoOp /\ \A j \in Ops : j # i => op'[j] = op[j]
      /\ Running' = Running \ {i}
  BY <1>1 DEF CpuInv, CpuTypeOK, Running
<1>7. CpuTypeOK'
  <2>1. op' \in [Ops -> Op \cup {NoOp}]
    BY <1>1 DEF CpuInv, CpuTypeOK
  <2>2. NoPolicy \in Policy
    BY DEF Policy
  <2>3. activity' \in [VM -> Activity \cup {"none"}] /\ rank' \in [VM -> Policy]
    BY <1>4, <2>2 DEF CpuInv, CpuTypeOK
  <2>4. share' \in [VM -> Policy]
    BY <1>3, <1>5 DEF CpuInv, CpuTypeOK
  <2> QED BY <1>1, <1>4, <2>1, <2>3, <2>4 DEF CpuInv, CpuTypeOK
<1>8. ASSUME NEW x \in Counted', mode # "off" PROVE Settles(x)'
  <2>1. x \in VM /\ x \in sure' /\ activity'[x] # "none" /\ alive'[x]
    BY <1>7 DEF Counted, CpuTypeOK
  <2>2. mode = "always" \/ mode = "hybrid"
    BY <1>8, CpuAssumption DEF CpuAssumption, CpuInv, CpuTypeOK
  <2>3. /\ lost => mode = "always" /\ x # o.vm
        /\ activity'[x] = activity[x] /\ rank'[x] = rank[x] /\ sure' = sure
    BY <1>3, <1>4, <2>1, <2>2 DEF CpuInv, CpuTypeOK
  <2>4. Settles(x)
    BY <1>1, <1>8, <2>1, <2>3 DEF CpuInv, Counted
  <2>5. Right(x)' = Right(x)
    <3>1. CASE lost
      BY <1>1, <2>3, <3>1 DEF Right
    <3>2. CASE ~lost
      <4>1. activity' = activity /\ rank' = rank
        BY <1>3, <1>4, <3>2 DEF CpuInv, CpuTypeOK
      <4> QED BY <1>1, <4>1 DEF Right
    <3> QED BY <3>1, <3>2
  <2>6. Touching(x)' = Touching(x) \ {i}
    BY <1>1, <1>6 DEF Touching, Running
  <2>7. \A j \in Touching(x)' : op'[j] = op[j]
    BY <1>6, <2>6 DEF Touching, Running
  <2>8. CASE i \in Touching(x)
    <3>1. Touching(x)' = {}
      BY <2>4, <2>6, <2>8 DEF Settles
    <3>2. ~o.failed /\ o.to[x] = Right(x) /\ nice[x] = Right(x) /\ Right(x) # NoPolicy
      BY <1>1, <1>2, <2>4, <2>8 DEF Settles
    <3>3. mode \in Cgroups => share'[x] = Right(x)
      BY <1>1, <1>5, <2>1, <3>2
    <3> QED BY <1>1, <2>5, <3>1, <3>2, <3>3 DEF Settles
  <2>9. CASE i \notin Touching(x)
    <3>1. mode = "always" /\ x # o.vm
      BY <1>1, <1>2, <2>2, <2>9 DEF Touching
    <3>2. o.to[x] = NoPolicy
      BY <1>1, <1>2, <2>1, <3>1 DEF CpuInv
    <3>3. share'[x] = share[x] /\ Touching(x)' = Touching(x)
      BY <1>5, <2>1, <2>6, <2>9, <3>2
    <3> QED BY <1>1, <2>4, <2>5, <2>7, <3>3 DEF Settles
  <2> QED BY <2>8, <2>9
<1>9. mode = "always" => \A j \in Running' :
         /\ op'[j].todo \subseteq {op'[j].vm}
         /\ \A y \in VM : y # op'[j].vm => op'[j].to[y] = NoPolicy
  BY <1>6 DEF CpuInv, Running
<1> QED BY <1>1, <1>7, <1>8, <1>9 DEF CpuInv

LEMMA CpuInvNext == CpuInv /\ [CpuNext]_cpuVars => CpuInv'
<1> SUFFICES ASSUME CpuInv, [CpuNext]_cpuVars PROVE CpuInv'
  OBVIOUS
<1>1. /\ "launching" \in Activity /\ "interactive-idle" \in Activity /\ Sent \subseteq Activity
      /\ TRUE \in BOOLEAN /\ FALSE \in BOOLEAN
  BY CpuAssumption DEF CpuAssumption, Activity, High, Idle
<1>2. ASSUME NEW m \in VM, VMListed(m) PROVE CpuInv'
  BY <1>1, <1>2, SetKeeps DEF VMListed
<1>3. ASSUME NEW m \in VM, VMWarms(m) \/ VMClaimed(m) \/ VMFallsIdle(m) PROVE CpuInv'
  BY <1>1, <1>3, SetKeeps DEF VMWarms, VMClaimed, VMFallsIdle
<1>4. ASSUME NEW m \in VM, NEW a \in Sent, VMMarked(m, a) PROVE CpuInv'
  BY <1>1, <1>4, SetKeeps DEF VMMarked
<1>5. CASE UNCHANGED cpuVars
  BY <1>5 DEF cpuVars, CpuInv, CpuTypeOK, Running, Counted, Settles, Right, Touching
<1> QED BY <1>2, <1>3, <1>4, <1>5, GoneKeeps, ReniceKeeps, EndKeeps DEF CpuNext

LEMMA CpuStaysInvariant == CpuSpec => []CpuInv
BY CpuInvInit, CpuInvNext, PTL DEF CpuSpec

\* Modes, states, policies and operations keep their types.
THEOREM CpuTypesKept == CpuSpec => []CpuTypeOK
<1>1. CpuInv => CpuTypeOK
  BY DEF CpuInv
<1> QED BY <1>1, CpuStaysInvariant, PTL

\* When no command of #setSchedulerState is under way, a session whose last
\* change was not disturbed runs at the priority its state and the gate call
\* for, for any number of VMs, any budget, threshold and order of the commands.
THEOREM PrioritiesDoSettle == CpuSpec => []PrioritiesSettle
<1>1. CpuInv => PrioritiesSettle
  <2> SUFFICES ASSUME CpuInv, Running = {}, mode # "off", NEW m \in sure,
                      activity[m] # "none", alive[m]
               PROVE  nice[m] = Right(m) /\ (mode \in Cgroups => share[m] = Right(m))
    BY DEF PrioritiesSettle, Right
  <2>1. m \in Counted /\ Touching(m) = {}
    BY DEF Counted, Touching
  <2> QED BY <2>1 DEF CpuInv, Settles
<1> QED BY <1>1, CpuStaysInvariant, PTL

-------------------------------------------------------------------------------
(***************************************************************************)
(* EgressProxy and DebugRelay: what a connection, a pair of sockets and a  *)
(* probe can be.  No more than one attempt of a probe is under way.        *)
(***************************************************************************)
LEMMA EgressStepTypes == EgressTypeOK /\ [EgressNext]_egressVars => EgressTypeOK'
<1> SUFFICES ASSUME EgressTypeOK, [EgressNext]_egressVars PROVE EgressTypeOK'
  OBVIOUS
<1>1. CASE UNCHANGED egressVars
  BY <1>1 DEF egressVars, EgressTypeOK
<1>2. CASE ProxyStops
  BY <1>2 DEF ProxyStops, EgressTypeOK
<1>3. ASSUME NEW t \in Conn, NEW line \in {"400", "502"}, Rejects(t, line)
      PROVE  EgressTypeOK'
  <2>1. at' \in [Conn -> Waiting \cup {"new", "open", "silent", "over"}]
    BY <1>3 DEF Rejects, Moves, EgressTypeOK
  <2>2. PICK l \in {"nothing", "200", "400", "502", "502 after 200"} : told' = [told EXCEPT ![t] = l]
    BY <1>3 DEF Rejects, EgressTypeOK
  <2>3. PICK p \in {"open", "destroyed", "reset"} : peer' = [peer EXCEPT ![t] = p]
    BY <1>3 DEF Rejects, EgressTypeOK
  <2>4. /\ told' \in [Conn -> {"nothing", "200", "400", "502", "502 after 200"}]
        /\ peer' \in [Conn -> {"open", "destroyed", "reset"}]
    BY <2>2, <2>3 DEF EgressTypeOK
  <2> QED BY <1>3, <2>1, <2>4 DEF Rejects, EgressTypeOK
<1>4. ASSUME NEW t \in Conn, NEW where \in Waiting \cup {"new", "open", "silent", "over"},
             Moves(t, where), UNCHANGED <<upstream, told, peer>>, proxy' \in {"up", "dead"}
      PROVE  EgressTypeOK'
  BY <1>4 DEF Moves, EgressTypeOK
<1>5. ASSUME NEW t \in Conn, Opens(t) PROVE EgressTypeOK'
  BY <1>5 DEF Opens, Moves, EgressTypeOK
<1>6. ASSUME NEW t \in Conn, ClientResets(t) PROVE EgressTypeOK'
  BY <1>6 DEF ClientResets, Moves, EgressTypeOK
<1>7. ASSUME NEW t \in Conn, RequestEnds(t) PROVE EgressTypeOK'
  BY <1>7 DEF RequestEnds, Moves, EgressTypeOK
<1>8. ASSUME NEW t \in Conn,
             \/ Connects(t) \/ Resolves(t) \/ ResolveFails(t) \/ Established(t)
             \/ UpstreamAnswers(t) \/ OutgoingFails(t) \/ OutgoingCloses(t) \/ Requests(t)
      PROVE  EgressTypeOK'
  <2>1. proxy \in {"up", "dead"}
    BY DEF EgressTypeOK
  <2>2. \/ Rejects(t, "400") \/ Rejects(t, "502") \/ Opens(t)
        \/ /\ \E where \in Waiting \cup {"new", "open", "silent", "over"} : Moves(t, where)
           /\ UNCHANGED <<upstream, proxy, told, peer>>
    BY <1>8 DEF Connects, Resolves, ResolveFails, Established, UpstreamAnswers, OutgoingFails,
                OutgoingCloses, Requests, Waiting
  <2> QED BY <1>3, <1>4, <1>5, <2>1, <2>2
<1> QED BY <1>1, <1>2, <1>6, <1>7, <1>8 DEF EgressNext

\* Every connection of the egress proxy is at one of the places its handlers
\* know, and its client has been told one status line, or a 502 after it, with
\* an upstream proxy or without, in whatever order resolver, sockets and clients
\* fail (handleConnect).
THEOREM EgressTypesKept == Upstreams \subseteq BOOLEAN => (EgressSpec => []EgressTypeOK)
<1> SUFFICES ASSUME Upstreams \subseteq BOOLEAN PROVE EgressSpec => []EgressTypeOK
  OBVIOUS
<1>1. EgressInit => EgressTypeOK
  BY DEF EgressInit, EgressTypeOK
<1> QED BY <1>1, EgressStepTypes, PTL DEF EgressSpec

ProbeStage == {"version", "list", "upgrade", "verified", "failed", "silent"}

RelayInv == /\ RelayTypeOK
            /\ probe \in [stage : ProbeStage, on : SUBSET Link]

LEMMA RelayStepTypes == RelayInv /\ [RelayNext]_relayVars => RelayInv'
<1> SUFFICES ASSUME RelayInv, [RelayNext]_relayVars PROVE RelayInv'
  OBVIOUS
<1>1. ASSUME relay' \in {"open", "closing", "closed"}, late' \in BOOLEAN,
             near' \in [Link -> {"none", "open", "fin"}],
             far' \in [Link -> {"none", "open", "fin"}], tracked' \subseteq Link,
             \/ UNCHANGED probe
             \/ \E s \in ProbeStage : \E S \in SUBSET Link :
                   /\ probe' = [stage |-> s, on |-> S]
                   /\ S = {} \/ \E l \in Link : S = {l}
      PROVE  RelayInv'
  <2>1. CASE UNCHANGED probe
    BY <1>1, <2>1 DEF RelayInv, RelayTypeOK
  <2>2. ASSUME NEW s \in ProbeStage, NEW S \in SUBSET Link, probe' = [stage |-> s, on |-> S],
               S = {} \/ \E l \in Link : S = {l}
        PROVE  RelayInv'
    <3>1. S \subseteq Link /\ Cardinality(S) <= 1
      <4>1. Cardinality({}) = 0 /\ \A l \in Link : Cardinality({l}) = 1
        BY FS_EmptySet, FS_Singleton
      <4> QED BY <2>2, <4>1
    <3>2. /\ probe'.stage = s /\ probe'.on = S
          /\ probe' \in [stage : ProbeStage, on : SUBSET Link]
      BY <2>2, <3>1
    <3> QED BY <1>1, <3>1, <3>2 DEF RelayInv, RelayTypeOK, ProbeStage
  <2> QED BY <1>1, <2>1, <2>2
<1>2. /\ relay \in {"open", "closing", "closed"} /\ late \in BOOLEAN
      /\ near \in [Link -> {"none", "open", "fin"}] /\ far \in [Link -> {"none", "open", "fin"}]
      /\ tracked \subseteq Link
      /\ probe \in [stage : ProbeStage, on : SUBSET Link]
  BY DEF RelayInv, RelayTypeOK
<1>3. ASSUME NEW l \in Link, NEW n \in {"none", "open", "fin"}, NEW f \in {"none", "open", "fin"},
             Sockets(l, n, f)
      PROVE  /\ near' \in [Link -> {"none", "open", "fin"}]
             /\ far' \in [Link -> {"none", "open", "fin"}]
  BY <1>2, <1>3 DEF Sockets
<1>4. ASSUME NEW l \in Link, ClientGone(l)
      PROVE  /\ near' \in [Link -> {"none", "open", "fin"}]
             /\ far' \in [Link -> {"none", "open", "fin"}] /\ tracked' \subseteq Link
  BY <1>2, <1>3, <1>4 DEF ClientGone, Cleanup, Fin
<1>5. ASSUME NEW S, probe' = [probe EXCEPT !.on = S], S = {} \/ \E l \in Link : S = {l}
      PROVE  \E s \in ProbeStage : probe' = [stage |-> s, on |-> S]
  BY <1>2, <1>5
<1>6. CASE UNCHANGED relayVars
  BY <1>6 DEF relayVars, RelayInv, RelayTypeOK
<1>7. CASE Close \/ Closed \/ Deadline
  BY <1>1, <1>2, <1>7 DEF Close, Closed, Deadline
<1>8. CASE OutOfTime
  <2>1. probe.on = {} /\ probe' = [stage |-> "failed", on |-> probe.on]
    BY <1>2, <1>8 DEF OutOfTime
  <2> QED BY <1>1, <1>2, <1>8, <2>1 DEF OutOfTime, ProbeStage
<1>9. ASSUME NEW l \in Link, Connect(l) \/ Attempt(l) PROVE RelayInv'
  <2>1. Accept(l) /\ (UNCHANGED probe \/ probe' = [probe EXCEPT !.on = {l}])
    BY <1>9 DEF Connect, Attempt
  <2>2. /\ Sockets(l, "open", "open") /\ tracked' \subseteq Link
        /\ relay' = relay /\ late' = late
    BY <1>2, <2>1 DEF Accept
  <2> QED BY <1>1, <1>2, <1>3, <1>5, <2>1, <2>2
<1>10. ASSUME NEW l \in Link, ClientEnds(l) PROVE RelayInv'
  BY <1>1, <1>2, <1>4, <1>10 DEF ClientEnds
<1>11. ASSUME NEW l \in Link, GuestEnds(l) \/ GuestFails(l) PROVE RelayInv'
  <2>1. Fin(near[l]) \in {"none", "open", "fin"}
    BY <1>2 DEF Fin
  <2>2. /\ near' \in [Link -> {"none", "open", "fin"}]
        /\ far' \in [Link -> {"none", "open", "fin"}]
    BY <1>3, <1>11, <2>1 DEF GuestEnds, GuestFails
  <2>3. tracked' \subseteq Link /\ UNCHANGED <<relay, probe, late>>
    BY <1>2, <1>11 DEF GuestEnds, GuestFails, Cleanup
  <2> QED BY <1>1, <1>2, <2>2, <2>3
<1>12. ASSUME NEW l \in Link, Answered(l) PROVE RelayInv'
  <2>1. Following(probe.stage) \in ProbeStage /\ probe.stage \in ProbeStage
    BY <1>2 DEF Following, ProbeStage
  <2>2. \E s \in ProbeStage : probe' = [stage |-> s, on |-> {}]
    BY <1>12, <2>1 DEF Answered
  <2>3. /\ near' \in [Link -> {"none", "open", "fin"}]
        /\ far' \in [Link -> {"none", "open", "fin"}] /\ tracked' \subseteq Link
    BY <1>2, <1>4, <1>12 DEF Answered
  <2> QED BY <1>1, <1>2, <1>12, <2>2, <2>3 DEF Answered
<1>13. ASSUME NEW l \in Link, AttemptTimesOut(l) PROVE RelayInv'
  BY <1>1, <1>2, <1>4, <1>5, <1>13 DEF AttemptTimesOut, Abandon
<1>14. ASSUME NEW l \in Link, AttemptIsLost(l) PROVE RelayInv'
  <2>1. \E s \in ProbeStage : probe' = [stage |-> s, on |-> {}]
    BY <1>5, <1>14 DEF AttemptIsLost, ProbeStage
  <2> QED BY <1>1, <1>2, <1>4, <1>14, <2>1 DEF AttemptIsLost
<1> QED BY <1>6, <1>7, <1>8, <1>9, <1>10, <1>11, <1>12, <1>13, <1>14 DEF RelayNext

\* The sockets of the debug relay and the readiness probe keep their types, and
\* the probe has one connection at a time, though an attempt that times out is
\* followed by the next and ends of sockets come in any order (waitForJson).
THEOREM RelayTypesKept == RelaySpec => []RelayTypeOK
<1>1. RelayInit => RelayInv
  <2> SUFFICES ASSUME RelayInit PROVE RelayInv
    OBVIOUS
  <2>1. probe = [stage |-> "version", on |-> {}] /\ Cardinality({}) <= 1
    BY FS_EmptySet DEF RelayInit
  <2>2. probe.on = {} /\ probe.stage = "version" /\ probe \in [stage : ProbeStage, on : SUBSET Link]
    BY <2>1 DEF ProbeStage
  <2>3. Cardinality(probe.on) <= 1
    BY <2>1, <2>2
  <2> QED BY <2>2, <2>3 DEF RelayInit, RelayInv, RelayTypeOK
<1>2. RelayInv => RelayTypeOK
  BY DEF RelayInv
<1> QED BY <1>1, <1>2, RelayStepTypes, PTL DEF RelaySpec
===============================================================================
