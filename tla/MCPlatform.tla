----------------------------- MODULE MCPlatform -----------------------------
(***************************************************************************)
(* Fleet, CpuPolicy, Snapshots, PartnerScope, ContainerAgent, SessionReads *)
(* and, without a monitor, NetworkSlots, and as an instance Optimizer, for *)
(* TLC.  They share no state here, so nothing is gained by interleaving    *)
(* their steps: each behaviour is one of one component, chosen at first.   *)
(***************************************************************************)
EXTENDS Fleet, CpuPolicy, Snapshots, PartnerScope, ContainerAgent, SessionReads,
        NetworkSlots, TLC

CONSTANTS h1, c1, c2, east, p,                  \* of Fleet
          m1, m2,                               \* of CpuPolicy
          base, proxy, l1, l2, l3,              \* of Snapshots and NetworkSlots
          k1, k2, k3, k4, tenant, project, region, va, vb, \* of PartnerScope
          s1, s2, b1, b2, b3,                   \* of ContainerAgent
          CandidateId, MaxProposals, MaxCandidates, MaxTime, Penalty, Infinity

VARIABLES part,  \* the component whose steps are taken
          dryRun, step, proposals, candidates, ranked      \* of Optimizer

HostOf(kind, place, sessions, microvms, pool, room) ==
    [allowed |-> TRUE, mode |-> kind, region |-> place, profiles |-> {p},
     sessions |-> sessions, renderers |-> 2, microvms |-> microvms,
     memory |-> microvms, pool |-> pool, free |-> room]

MCSetup == [h \in Host |-> HostOf("firecracker", east, 1, 2, 1, 0)]
MCRegionOf == [c \in Creation |-> Unasked]
MCProfileOf == [c \in Creation |-> Unasked]

MCTargetOf == [l \in Restore |-> IF l = l1 THEN base ELSE proxy]

Stamps(t, q) == tenant :> t @@ project :> q
MCStampOf == k1 :> Stamps(va, Unset) @@ k2 :> Stamps(vb, Unset)
             @@ k3 :> Stamps(va, vb) @@ k4 :> Stamps(Unset, Unset)
MCLimitOf == [q \in PKey |-> region :> CASE q = k1 -> {va}
                                         [] q = k4 -> {vb}
                                         [] OTHER -> {}]

MCSpelledAs == [i \in CandidateId |-> IF i = "a" THEN {<<i, 1>>, <<i, 2>>} ELSE {<<i, 1>>}]

Search == INSTANCE Optimizer WITH SpelledAs <- MCSpelledAs

Symmetric == Permutations(VM)

searchVars == <<dryRun, step, proposals, candidates, ranked>>
platformVars == <<part, fleetVars, cpuVars, snapVars, partnerVars, boxVars,
                  readVars, vars, searchVars>>

\* What a component may start with is chosen only where it is looked at.
PlatformInit ==
    /\ FleetInit /\ CpuInit /\ SnapInit /\ PartnerInit /\ BoxInit /\ ReadInit
    /\ Init /\ Search!OptimizerInit
    /\ part \in {"fleet", "cpu", "snapshots", "partners", "containers", "reads",
                 "slots", "search"}
    /\ part # "cpu" => mode = "off"
    /\ part # "search" => dryRun

Only(which) ==
    /\ part = which /\ UNCHANGED part
    /\ which # "fleet" => UNCHANGED fleetVars
    /\ which # "cpu" => UNCHANGED cpuVars
    /\ which # "snapshots" => UNCHANGED snapVars
    /\ which # "partners" => UNCHANGED partnerVars
    /\ which # "containers" => UNCHANGED boxVars
    /\ which # "reads" => UNCHANGED readVars
    /\ which # "slots" => UNCHANGED vars
    /\ which # "search" => UNCHANGED searchVars

PlatformNext ==
    \/ Only("fleet") /\ FleetNext
    \/ Only("cpu") /\ CpuNext
    \/ Only("snapshots") /\ SnapNext
    \/ Only("partners") /\ PartnerNext
    \/ Only("containers") /\ BoxNext
    \/ Only("reads") /\ ReadNext
    \/ Only("slots") /\ Next
    \/ Only("search") /\ Search!OptimizerNext

PlatformSpec == PlatformInit /\ [][PlatformNext]_platformVars

\* Each component's variables keep their types.
PlatformTypeOK == CASE part = "fleet" -> FleetTypeOK
                    [] part = "cpu" -> CpuTypeOK
                    [] part = "snapshots" -> SnapTypeOK
                    [] part = "partners" -> PartnerTypeOK
                    [] part = "containers" -> BoxTypeOK
                    [] part = "reads" -> ReadTypeOK
                    [] part = "slots" -> TypeOK
                    [] part = "search" -> Search!OptimizerTypeOK

\* The optimizer's report has every safe candidate once, the better ones first.
ReportIsWhole == Search!ReportIsWhole
=============================================================================
