----------------------------- MODULE MCLaunches ------------------------------
(***************************************************************************)
(* The launches of a node agent (NodeAgent), the time-outs of a create     *)
(* (CreateDeadlines) and what launches leave on a host (HostResources) for *)
(* TLC.  They describe different aspects of launches and share no          *)
(* variable, so each behaviour is one of one of them, chosen at first.     *)
(***************************************************************************)
EXTENDS MCNodeAgent, CreateDeadlines, HostResources

CONSTANTS m1, m2  \* of HostResources

VARIABLE part  \* the module whose steps are taken

launchesVars == <<part, vars, deadlineVars, hostVars>>

LaunchesInit == /\ part \in {"agent", "deadlines", "host"}
                /\ part # "agent" => config = Sizes(0, 2, 1)
                /\ Init /\ DeadlineInit /\ HostInit

LaunchesNext ==
    /\ UNCHANGED part
    /\ \/ part = "agent" /\ Next /\ UNCHANGED <<deadlineVars, hostVars>>
       \/ part = "deadlines" /\ DeadlineNext /\ UNCHANGED <<vars, hostVars>>
       \/ part = "host" /\ HostNext /\ UNCHANGED <<vars, deadlineVars>>

LaunchesSpec == LaunchesInit /\ [][LaunchesNext]_launchesVars
=============================================================================
