----------------------------- MODULE MCProgress -----------------------------
(***************************************************************************)
(* ControlPlane in one process, DensityBench and, each as an instance,     *)
(* EgressProxy and DebugRelay, for TLC: what must eventually happen in     *)
(* them, and the invariants of the first two.  They share no state here,   *)
(* so each behaviour is one of one component, chosen at first, and only    *)
(* steps of that one are fair.                                             *)
(***************************************************************************)
EXTENDS ControlPlane, DensityBench

CONSTANTS k, r1, r2,        \* of ControlPlane
          Conn, Upstreams, t1, t2, \* of EgressProxy
          Link, l1, l2      \* of DebugRelay

VARIABLES part,  \* the component whose steps are taken
          upstream, proxy, at, told, peer,          \* of EgressProxy
          relay, near, far, tracked, probe, late    \* of DebugRelay

MCKeyOf == [r \in Request |-> NoKey]
MCPayload == [r \in Request |-> "same"]
MCLevels == <<1, 2>>
MCLimit == [g \in {"connect", "navigation"} |-> 1]

Egress == INSTANCE EgressProxy
Relay == INSTANCE DebugRelay

egressVars == <<upstream, proxy, at, told, peer>>
relayVars == <<relay, near, far, tracked, probe, late>>
progressVars == <<part, vars, egressVars, relayVars, benchVars>>

ProgressInit == /\ part \in {"plane", "egress", "relay", "bench"}
                /\ part # "egress" => upstream = FALSE
                /\ Init /\ Egress!EgressInit /\ Relay!RelayInit
                /\ BenchInit

Only(which) ==
    /\ part = which /\ UNCHANGED part
    /\ which # "plane" => UNCHANGED vars
    /\ which # "egress" => UNCHANGED egressVars
    /\ which # "relay" => UNCHANGED relayVars
    /\ which # "bench" => UNCHANGED benchVars

ProgressNext == \/ Only("plane") /\ Next
                \/ Only("egress") /\ Egress!EgressNext
                \/ Only("relay") /\ Relay!RelayNext
                \/ Only("bench") /\ BenchNext

\* A step that is possible at first is fair where its component is looked at.
ProgressSpec ==
    /\ ProgressInit /\ [][ProgressNext]_progressVars
    /\ Fairness
    /\ \A t \in Conn : Egress!EgressFairness(t)
    /\ WF_progressVars(Only("relay") /\ Relay!Closed)
    /\ WF_progressVars(Only("relay") /\ Relay!Deadline)
    /\ WF_progressVars(Only("relay") /\ Relay!OutOfTime)
    /\ \A l \in Link : /\ WF_progressVars(Only("relay") /\ Relay!AttemptTimesOut(l))
                       /\ WF_progressVars(Only("relay") /\ Relay!AttemptIsLost(l))
    /\ WF_progressVars(Only("bench") /\ LadderStep)
    /\ WF_progressVars(Only("bench") /\ BarrierTimesOut)
    /\ \A t \in Task : WF_progressVars(Only("bench") /\ TaskStep(t))

\* Every client of the egress proxy is answered, but for two ways to fail.
ClientsAreAnswered == Egress!ClientsAreAnswered

\* The relay that is told to close is closed, unless a client holds it open.
RelaysClose == Relay!RelaysClose

\* A probe through the relay comes to a verdict, but for one kind of silence.
ProbesAreSettled == part = "relay" => Relay!ProbesSettle

\* The density benchmark comes to an end and tells its processes to stop.
BenchTerminates == part = "bench" => BenchEnds
=============================================================================
