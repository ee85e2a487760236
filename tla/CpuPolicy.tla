------------------------------ MODULE CpuPolicy ------------------------------
(***************************************************************************)
(* The CPU priorities of microVMs: FirecrackerOrchestrator keeps a         *)
(* scheduler state for every VM of #sessions and moves nice values and     *)
(* cgroup weights after it (src/node-agent/firecracker.ts,                 *)
(* #setSchedulerState and what it calls).                                  *)
(*                                                                         *)
(* The state changes at once; the commands that bring it to the process    *)
(* (renice, then writes to the cgroup) are children that end in any order, *)
(* and several operations may have theirs under way.  A VM's entry moves   *)
(* with the VM when a session claims it, so entries are kept by VM.        *)
(***************************************************************************)
EXTENDS Integers, FiniteSets

CONSTANTS VM,
          CpuMode,        \* modes to explore: "off", "always", "hybrid"
          Budget,         \* FIRECRACKER_HIGH_PRIORITY_BUDGET
          IdleThreshold,  \* FIRECRACKER_HYBRID_IDLE_SESSION_THRESHOLD
          Sent,           \* activity states that clients report
          Cgroups,        \* modes to explore with cgroups that can be written
          Ops             \* places for operations under way (a bound)

ASSUME CpuAssumption == /\ CpuMode \subseteq {"off", "always", "hybrid"}
                        /\ Budget \in Nat
                        /\ IdleThreshold \in Nat
                        /\ Cgroups \subseteq CpuMode
                        /\ Sent \subseteq {"launching", "active-navigation",
                                           "interactive-idle", "soak-idle"}
                        /\ IsFiniteSet(VM)

VARIABLES
    mode,     \* the dynamic CPU mode, "off" without a dynamic policy
    activity, \* activity[m]: activity state of VM m, "none" outside #sessions
    rank,     \* rank[m]: policy the entry of m was last given
    alive,    \* alive[m]: the process of m runs
    nice,     \* nice[m]: policy its nice value comes from
    share,    \* share[m]: policy its cgroup and affinity come from
    op,       \* op[i]: a #setSchedulerState with commands under way
    sure      \* history: VMs whose last change of policy ran undisturbed

cpuVars == <<mode, activity, rank, alive, nice, share, op, sure>>

High == {"launching", "active-navigation"}
Idle == {"interactive-idle", "soak-idle"}
Activity == High \cup Idle

\* A policy is one of cpuPolicyForState, overflowCpuPolicyForState and
\* neutralCpuPolicy, for an activity state.
Own(a) == <<"own", a>>
Overflow(a) == IF a \in High THEN <<"overflow", a>> ELSE Own(a)
Neutral(a) == <<"neutral", a>>
NoPolicy == <<"none", "none">>
Policy == {"own", "overflow", "neutral"} \X Activity \cup {NoPolicy}

NoOp == [to |-> NoPolicy]
Op == [vm : VM, todo : SUBSET VM, to : [VM -> Policy], failed : BOOLEAN, awaited : BOOLEAN]

CpuTypeOK ==
    /\ mode \in CpuMode
    /\ activity \in [VM -> Activity \cup {"none"}]
    /\ rank \in [VM -> Policy]
    /\ alive \in [VM -> BOOLEAN]
    /\ nice \in [VM -> Policy] /\ share \in [VM -> Policy]
    /\ op \in [Ops -> Op \cup {NoOp}]
    /\ sure \subseteq VM

CpuInit ==
    /\ mode \in CpuMode
    /\ activity = [m \in VM |-> "none"]
    /\ rank = [m \in VM |-> NoPolicy]
    /\ alive = [m \in VM |-> FALSE]
    /\ nice = rank /\ share = rank
    /\ op = [i \in Ops |-> NoOp]
    /\ sure = {}

Listed(st) == {m \in VM : st[m] # "none"}

\* The gate of the hybrid mode.  The second test of the code, the ratio of
\* idle sessions, has the same form.
GateOpen(st) == /\ Listed(st) # {}
                /\ Cardinality({m \in VM : st[m] \in Idle}) >= IdleThreshold

FluidPolicy(a, open) == IF open /\ a \in Idle THEN Own(a) ELSE Neutral(a)

\* Sessions other than m of high priority, whatever policy they got.
Rivals(m) == {n \in VM \ {m} : activity[n] \in High}

\* The policy of m when it enters activity state a.
RankOf(m, a) ==
    CASE mode = "off" -> Neutral(a)
      [] mode = "hybrid" -> FluidPolicy(a, GateOpen([activity EXCEPT ![m] = a]))
      [] mode = "always" /\ a \in High /\ Cardinality(Rivals(m)) >= Budget -> Overflow(a)
      [] OTHER -> Own(a)

\* A fault: the change of one session is applied to that session only.
RefreshesItself(m, st) == IF alive[m] THEN {m} ELSE {}

\* #refreshAllHybridCpuPolicies writes to every session; a VM has had its
\* process id since it was listed.
Refreshes(m, st) == IF mode = "hybrid" THEN Listed(st) ELSE {m}

\* What it writes to the VMs of S.
Targets(S, st, policy) ==
    [n \in VM |-> IF n \notin S THEN NoPolicy
                  ELSE IF mode = "always" THEN policy
                  ELSE FluidPolicy(st[n], GateOpen(st))]

Running == {i \in Ops : op[i] # NoOp}

\* Whether an operation of m disturbs one under way: in hybrid mode they all
\* write to all VMs.
Overlaps(m) == \E i \in Running : mode = "hybrid" \/ op[i].vm = m

(***************************************************************************)
(* #setSchedulerState: entry and policy change at once, the commands are   *)
(* started.                                                                *)
(***************************************************************************)
SetSchedulerState(m, a, awaited) ==
    LET st == [activity EXCEPT ![m] = a]
    IN  /\ activity' = st
        /\ rank' = [rank EXCEPT ![m] = RankOf(m, a)]
        /\ \/ /\ mode = "off"
              /\ UNCHANGED <<op, sure>>
           \/ /\ mode # "off"
              /\ \E i \in Ops :
                   /\ op[i] = NoOp
                   /\ op' = [op EXCEPT ![i] =
                        [vm |-> m, todo |-> Refreshes(m, st),
                         to |-> Targets(Refreshes(m, st), st, RankOf(m, a)), failed |-> FALSE,
                         awaited |-> awaited]]
              /\ LET V == IF mode = "hybrid" THEN VM ELSE {m}
                 IN  sure' = IF Overlaps(m) THEN sure \ V ELSE sure \cup V

\* restoreSession: a new VM enters #sessions, at nice 0 and without a cgroup.
VMListed(m) ==
    /\ activity[m] = "none" /\ ~alive[m]
    /\ \A i \in Running : m # op[i].vm /\ m \notin op[i].todo
    /\ alive' = [alive EXCEPT ![m] = TRUE]
    /\ SetSchedulerState(m, "launching", TRUE)
    /\ UNCHANGED <<mode, nice, share>>

\* prepareWarmSession after the restore, and claimWarmSession.
VMWarms(m) ==
    /\ activity[m] = "launching"
    /\ SetSchedulerState(m, "interactive-idle", TRUE)
    /\ UNCHANGED <<mode, alive, nice, share>>

VMClaimed(m) ==
    /\ activity[m] = "interactive-idle"
    /\ SetSchedulerState(m, "launching", TRUE)
    /\ UNCHANGED <<mode, alive, nice, share>>

\* markSessionActivity, with a state a client sends.
VMMarked(m, a) ==
    /\ activity[m] # "none"
    /\ SetSchedulerState(m, a, FALSE)
    /\ UNCHANGED <<mode, alive, nice, share>>

\* refreshScheduling: no activity for FIRECRACKER_ACTIVITY_IDLE_MS, which may
\* be the case of a launch that takes long.
VMFallsIdle(m) ==
    /\ activity[m] \in High
    /\ SetSchedulerState(m, "interactive-idle", FALSE)
    /\ UNCHANGED <<mode, alive, nice, share>>

\* terminateSession and the like: the entry goes, the process follows, and
\* nothing is refreshed.
VMDelisted(m) ==
    /\ activity[m] # "none"
    /\ activity' = [activity EXCEPT ![m] = "none"]
    /\ rank' = [rank EXCEPT ![m] = NoPolicy]
    /\ sure' = IF mode = "hybrid" THEN {} ELSE sure
    /\ UNCHANGED <<mode, alive, nice, share, op>>

VMDies(m) ==
    /\ alive[m]
    /\ alive' = [alive EXCEPT ![m] = FALSE]
    /\ nice' = [nice EXCEPT ![m] = NoPolicy]
    /\ share' = [share EXCEPT ![m] = NoPolicy]
    /\ sure' = sure \ {m}
    /\ UNCHANGED <<mode, activity, rank, op>>

(***************************************************************************)
(* The commands                                                            *)
(***************************************************************************)
\* One renice ends; for a process that is gone it fails, and with it the
\* operation, while the other commands run on.
Renices(i, n) ==
    /\ i \in Running /\ n \in op[i].todo
    /\ IF alive[n]
       THEN /\ nice' = [nice EXCEPT ![n] = op[i].to[n]]
            /\ op' = [op EXCEPT ![i].todo = @ \ {n}]
            /\ UNCHANGED sure
       ELSE /\ op' = [op EXCEPT ![i].todo = @ \ {n}, ![i].failed = TRUE]
            /\ sure' = IF mode = "hybrid" THEN {} ELSE sure \ {op[i].vm}
            /\ UNCHANGED nice
    /\ UNCHANGED <<mode, activity, rank, alive, share>>

\* All have ended.  #applyCpuPolicy for every VM meant, its writes taken as one
\* step, where an error, as for a process that is gone, is only logged; but
\* after a failure the operation throws, and a launch that awaits it destroys
\* its VM.
OpEnds(i) ==
    /\ i \in Running /\ op[i].todo = {}
    /\ op' = [op EXCEPT ![i] = NoOp]
    /\ LET m == op[i].vm
           lost == op[i].awaited /\ op[i].failed /\ activity[m] # "none"
       IN  /\ share' = [n \in VM |-> IF ~op[i].failed /\ mode \in Cgroups /\ alive[n]
                                       /\ op[i].to[n] # NoPolicy
                                    THEN op[i].to[n] ELSE share[n]]
           /\ activity' = [activity EXCEPT ![m] = IF lost THEN "none" ELSE @]
           /\ rank' = [rank EXCEPT ![m] = IF lost THEN NoPolicy ELSE @]
           /\ sure' = IF lost /\ mode = "hybrid" THEN {} ELSE sure
    /\ UNCHANGED <<mode, alive, nice>>

CpuNext ==
    \/ \E m \in VM :
         \/ VMListed(m) \/ VMWarms(m) \/ VMClaimed(m) \/ VMFallsIdle(m)
         \/ VMDelisted(m) \/ VMDies(m)
         \/ \E a \in Sent : VMMarked(m, a)
    \/ \E i \in Ops : OpEnds(i) \/ \E n \in VM : Renices(i, n)

CpuSpec == CpuInit /\ [][CpuNext]_cpuVars

(***************************************************************************)
(* Properties                                                              *)
(***************************************************************************)

\* "Re-apply all sessions so idles that were neutral before the gate opened get
\* demoted" (firecracker.ts:2148): when no command is under way, the nice value
\* of every living session is the one its state and the gate now call for.
\* Only a VM whose last operation overlapped another or failed, or, in hybrid
\* mode, a session that ended since, may have left it at an older one.
PrioritiesSettle ==
    Running = {} /\ mode # "off" =>
      \A m \in sure :
        activity[m] # "none" /\ alive[m] =>
          LET right == IF mode = "always" THEN rank[m]
                       ELSE FluidPolicy(activity[m], GateOpen(activity))
          IN  nice[m] = right /\ (mode \in Cgroups => share[m] = right)
=============================================================================
