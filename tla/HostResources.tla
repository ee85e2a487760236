--------------------------- MODULE HostResources ----------------------------
(***************************************************************************)
(* What a VM puts on the host, and who takes it away: the processes in the *)
(* namespace of its network slot, its state directory and its API socket   *)
(* (#spawnMachine, #destroyMachine, #rebuildNetworkSlot of                 *)
(* src/node-agent/firecracker.ts), the sweep at the start and at the end   *)
(* of an agent (cleanupFirecrackerHostResources), and agents that are      *)
(* killed between any two awaits.                                          *)
(*                                                                         *)
(* One slot is enough: the sweep takes the slots one after the other, and  *)
(* that VMs do not share one is the subject of NetworkSlots.  The agent    *)
(* runs as root, so that a signal reaches the program itself and           *)
(* `ip netns pids` sees every process.                                     *)
(***************************************************************************)
EXTENDS Naturals, FiniteSets

CONSTANTS Machine,  \* the VMs launched in the slot, one after the other
          MaxLives  \* bound: agents started

VARIABLES
    agent,    \* the process: starting, up, ending after a signal, or down
    lives,    \* agents started
    slot,     \* the slot's state; "broken": its rebuild has failed
    job,      \* what the agent is doing to the slot, and for which machine
    mine,     \* machines launched by this agent
    due,      \* those that shutdown waits to see destroyed
    sweep,    \* where cleanupFirecrackerHostResources is
    touched,  \* the sweep has found the slot's namespace
    netns,    \* the namespace by the slot's name: none, bare of devices, ready
    veth,     \* the root end of the slot's veth pair
    proc,     \* proc[x]: process x
    dirs,     \* state directories
    sockets   \* API sockets

life == <<agent, lives, mine, due>>
work == <<slot, job>>
sweeping == <<sweep, touched>>
net == <<netns, veth>>
files == <<dirs, sockets>>
hostVars == <<life, work, sweeping, net, proc, files>>

\* Firecracker, the helpers started beside it, and what socat forks for each
\* connection.
Process == Machine \X {"vm", "helper", "fork"}

AtJob == {"none", "netnsTerm", "netnsKill", "nameTerm", "nameKill", "spawn",
          "starting", "stopHelpers", "socketTerm", "socketKill", "files",
          "rebuildTerm", "rebuildKill", "delete", "add", "devices"}
AtSweep == {"none", "term", "kill", "netnsTerm", "netnsKill", "delete", "files",
            "closing"}

HostTypeOK ==
    /\ agent \in {"starting", "up", "ending", "down"}
    /\ lives \in 0..MaxLives
    /\ slot \in {"free", "reserved", "rebuilding", "broken"}
    /\ job \in [at : AtJob, for : {"launch", "destroy", "rebuild"},
                m : SUBSET Machine]
    /\ {mine, due} \subseteq SUBSET Machine
    /\ sweep \in AtSweep
    /\ touched \in BOOLEAN
    /\ netns \in {"none", "bare", "ready"}
    /\ veth \in BOOLEAN
    /\ proc \in [Process -> {"none", "wrapped", "in", "lost", "gone"}]
    /\ {dirs, sockets} \subseteq SUBSET Machine

NoJob == [at |-> "none", for |-> "rebuild", m |-> {}]

HostInit == /\ agent = "down"
            /\ lives = 0
            /\ slot = "broken"
            /\ job = NoJob
            /\ mine = {}
            /\ due = {}
            /\ sweep = "none"
            /\ touched = FALSE
            /\ netns = "none"
            /\ veth = FALSE
            /\ proc = [x \in Process |-> "none"]
            /\ dirs = {}
            /\ sockets = {}

(***************************************************************************)
(* Finding processes and ending them                                       *)
(***************************************************************************)
Alive == {x \in Process : proc[x] \in {"wrapped", "in", "lost"}}

\* `ps` has --api-sock and the socket in the line of every Firecracker; the
\* names of the slot only in that of a helper whose `ip netns exec` has yet to
\* enter the namespace.
BySocket(ms) == {x \in Alive : x[1] \in ms /\ x[2] = "vm"}
ByName == {x \in Alive : x[2] = "helper" /\ proc[x] = "wrapped"}

\* A fault: the sweep looks for the sockets it has seen.
StaleByFiles == BySocket(sockets) \cup ByName

\* What a sweep looks for.
Stale == BySocket(Machine) \cup ByName

\* `ip netns pids`
InNetns == {x \in Alive : proc[x] = "in"}

Ended(S) == proc' = [x \in Process |-> IF x \in S THEN "gone" ELSE proc[x]]

\* SIGTERM ends some of them, SIGKILL all there still are.
Signalled(S) == \E T \in SUBSET S : Ended(T)

\* Whoever is in the namespace stays there when its name goes.
NameGoes == /\ netns' = "none"
            /\ proc' = [x \in Process |-> IF proc[x] = "in" THEN "lost"
                                                           ELSE proc[x]]

(***************************************************************************)
(* The operating system                                                    *)
(***************************************************************************)
\* `ip netns exec` enters the namespace, or fails for want of one; Firecracker
\* then makes its socket.
EnterNetns(x) ==
    /\ proc[x] = "wrapped"
    /\ proc' = [proc EXCEPT ![x] = IF netns = "none" THEN "gone" ELSE "in"]
    /\ sockets' = IF netns # "none" /\ x[2] = "vm" THEN sockets \cup {x[1]}
                                                   ELSE sockets
    /\ UNCHANGED <<life, work, sweeping, net, dirs>>

\* socat serves a connection.
Fork(m) ==
    /\ proc[<<m, "helper">>] = "in"
    /\ proc[<<m, "fork">>] = "none"
    /\ proc' = [proc EXCEPT ![<<m, "fork">>] = "in"]
    /\ UNCHANGED <<life, work, sweeping, net, files>>

Exits(x) ==
    /\ x \in Alive
    /\ Ended({x})
    /\ UNCHANGED <<life, work, sweeping, net, files>>

\* validateSlotNetworkFast
Healthy == netns = "ready" /\ veth

(***************************************************************************)
(* A VM in the slot                                                        *)
(***************************************************************************)
GoOnTo(where) == job' = [job EXCEPT !.at = where]
Rebuild == [at |-> "rebuildTerm", for |-> "rebuild", m |-> {}]

\* #spawnMachine, as far as the clean-up before the launch.  The server takes
\* launches until the last sweep is over.
Launch(m) ==
    /\ agent \in {"up", "ending"}
    /\ sweep # "closing"
    /\ slot = "free"
    /\ job = NoJob
    /\ \A x \in Process : x[1] = m => proc[x] = "none"
    /\ slot' = "reserved"
    /\ job' = [at |-> "netnsTerm", for |-> "launch", m |-> {m}]
    /\ mine' = mine \cup {m}
    /\ dirs' = dirs \cup {m}
    /\ sockets' = sockets \ {m}
    /\ UNCHANGED <<agent, lives, due, sweeping, net, proc>>

\* #killSlotHelperProcesses: whoever is in the namespace, then whoever is named
\* after it; a fresh look before each SIGKILL.
Purge ==
    /\ \/ job.at = "netnsTerm" /\ Signalled(InNetns) /\ GoOnTo("netnsKill")
       \/ job.at = "netnsKill" /\ Ended(InNetns) /\ GoOnTo("nameTerm")
       \/ job.at = "nameTerm" /\ Signalled(ByName) /\ GoOnTo("nameKill")
       \/ /\ job.at = "nameKill"
          /\ Ended(ByName)
          /\ GoOnTo(IF job.for = "launch" THEN "spawn" ELSE "files")
    /\ UNCHANGED <<life, slot, sweeping, net, files>>

\* Firecracker and the helpers are started together.
SpawnVM ==
    /\ job.at = "spawn"
    /\ proc' = [x \in Process |->
                  IF x[1] \in job.m /\ x[2] # "fork" THEN "wrapped" ELSE proc[x]]
    /\ GoOnTo("starting")
    /\ UNCHANGED <<life, slot, sweeping, net, files>>

Started ==
    /\ job.at = "starting"
    /\ job.m \subseteq sockets
    /\ job' = NoJob
    /\ UNCHANGED <<life, slot, sweeping, net, proc, files>>

\* No socket in time, or a call of the API failed: the children are killed, the
\* slot goes to be rebuilt, the directory goes, the socket stays.
SpawnVMFails ==
    /\ job.at = "starting"
    /\ Ended({x \in Alive : x[1] \in job.m /\ x[2] # "fork"})
    /\ slot' = "rebuilding"
    /\ job' = Rebuild
    /\ dirs' = dirs \ job.m
    /\ UNCHANGED <<life, sweeping, net, sockets>>

\* #destroyMachine of a machine that runs, or ran.
Destroy(m) ==
    /\ agent \in {"up", "ending"}
    /\ slot = "reserved"
    /\ job = NoJob
    /\ m \in mine \cap dirs
    /\ job' = [at |-> "stopHelpers", for |-> "destroy", m |-> {m}]
    /\ UNCHANGED <<life, slot, sweeping, net, proc, files>>

\* A fault: the slot is given back once its VM is gone, its namespace unpurged.
StopIsEnough ==
    /\ \/ /\ job.at = "stopHelpers"
          /\ Ended({x \in Alive : x[1] \in job.m /\ x[2] = "helper"})
          /\ GoOnTo("socketTerm")
       \/ /\ job.at = "socketTerm"
          /\ Signalled(BySocket(job.m))
          /\ GoOnTo("socketKill")
       \/ job.at = "socketKill" /\ Ended(BySocket(job.m)) /\ GoOnTo("files")
    /\ UNCHANGED <<life, slot, sweeping, net, files>>

\* The helpers are stopped, then Firecracker by its socket; what socat has
\* forked is left to the purge of the slot.
Stop ==
    /\ \/ /\ job.at = "stopHelpers"
          /\ Ended({x \in Alive : x[1] \in job.m /\ x[2] = "helper"})
          /\ GoOnTo("socketTerm")
       \/ /\ job.at = "socketTerm"
          /\ Signalled(BySocket(job.m))
          /\ GoOnTo("socketKill")
       \/ job.at = "socketKill" /\ Ended(BySocket(job.m)) /\ GoOnTo("netnsTerm")
    /\ UNCHANGED <<life, slot, sweeping, net, files>>

\* Directory and socket go; the slot, looked at again, is free or is rebuilt.
Destroyed ==
    /\ job.at = "files"
    /\ dirs' = dirs \ job.m
    /\ sockets' = sockets \ job.m
    /\ \/ Healthy /\ slot' = "free" /\ job' = NoJob
       \/ slot' = "rebuilding" /\ job' = Rebuild
    /\ UNCHANGED <<life, sweeping, net, proc>>

(***************************************************************************)
(* #rebuildNetworkSlot                                                     *)
(***************************************************************************)
RebuildPurges ==
    /\ \/ job.at = "rebuildTerm" /\ Signalled(InNetns) /\ GoOnTo("rebuildKill")
       \/ job.at = "rebuildKill" /\ Ended(InNetns) /\ GoOnTo("delete")
    /\ UNCHANGED <<life, slot, sweeping, net, files>>

RebuildDeletes ==
    /\ job.at = "delete"
    /\ NameGoes
    /\ veth' = FALSE
    /\ GoOnTo("add")
    /\ UNCHANGED <<life, slot, sweeping, files>>

\* setupNamespacedNetwork: namespace and veth pair are added at the same time,
\* then the addresses, the devices and the rules.
RebuildAdds ==
    /\ job.at = "add"
    /\ \/ netns = "none" /\ netns' = "bare" /\ UNCHANGED <<job, veth>>
       \/ ~veth /\ veth' = TRUE /\ UNCHANGED <<job, netns>>
       \/ netns = "bare" /\ veth /\ GoOnTo("devices") /\ UNCHANGED net
    /\ UNCHANGED <<life, slot, sweeping, proc, files>>

\* The pool has one slot: once it is built, an agent that starts is up.
RebuildEnds ==
    /\ job.at = "devices"
    /\ netns # "none"
    /\ netns' = "ready"
    /\ slot' = "free"
    /\ job' = NoJob
    /\ agent' = IF agent = "starting" THEN "up" ELSE agent
    /\ UNCHANGED <<lives, mine, due, sweeping, veth, proc, files>>

\* A command fails: the slot stays as it is, and an agent that starts gives up.
RebuildFails ==
    /\ job.at \in {"add", "devices"}
    /\ slot' = "broken"
    /\ job' = NoJob
    /\ agent' = IF agent = "starting" THEN "down" ELSE agent
    /\ UNCHANGED <<lives, mine, due, sweeping, net, proc, files>>

(***************************************************************************)
(* The life of an agent, and its sweeps                                    *)
(***************************************************************************)
\* prepareRuntimeMode begins with a sweep, whose first looks are at the
\* directories and at the namespaces.
Start ==
    /\ agent = "down"
    /\ lives < MaxLives
    /\ agent' = "starting"
    /\ lives' = lives + 1
    /\ slot' = "broken"
    /\ mine' = {}
    /\ sweep' = "term"
    /\ touched' = (netns # "none")
    /\ UNCHANGED <<due, job, net, proc, files>>

\* SIGTERM: the sessions listed now are terminated; launches go on.
Signal ==
    /\ agent = "up"
    /\ agent' = "ending"
    /\ due' = IF job = NoJob THEN mine \cap dirs ELSE {}
    /\ UNCHANGED <<lives, mine, work, sweeping, net, proc, files>>

EndSweeps ==
    /\ agent = "ending"
    /\ sweep = "none"
    /\ due \cap dirs = {}
    /\ sweep' = "term"
    /\ touched' = (netns # "none")
    /\ UNCHANGED <<life, work, net, proc, files>>

\* Every Firecracker and every helper by name, then whoever is in a namespace
\* the sweep has found, then that namespace and its veth pair.
Sweep ==
    /\ \/ /\ sweep = "term"
          /\ Signalled(Stale)
          /\ sweep' = "kill"
          /\ UNCHANGED net
       \/ /\ sweep = "kill"
          /\ Ended(Stale)
          /\ sweep' = IF touched THEN "netnsTerm" ELSE "files"
          /\ UNCHANGED net
       \/ /\ sweep = "netnsTerm"
          /\ Signalled(InNetns)
          /\ sweep' = "netnsKill"
          /\ UNCHANGED net
       \/ /\ sweep = "netnsKill"
          /\ Ended(InNetns)
          /\ sweep' = "delete"
          /\ UNCHANGED net
       \/ /\ sweep = "delete"
          /\ NameGoes
          /\ veth' = FALSE
          /\ sweep' = "files"
    /\ UNCHANGED <<life, work, touched, files>>

\* What is in the two directories goes.  Then an agent that starts builds its
\* slots, and one that ends closes its server ...
SweepEnds ==
    /\ sweep = "files"
    /\ dirs' = {}
    /\ sockets' = {}
    /\ IF agent = "starting"
       THEN slot' = "rebuilding" /\ job' = Rebuild /\ sweep' = "none"
       ELSE sweep' = "closing" /\ UNCHANGED work
    /\ UNCHANGED <<life, touched, net, proc>>

\* ... and exits, whatever is under way; as it does when it is killed at any
\* moment.  Its children live on.
Crash ==
    /\ agent # "down"
    /\ agent' = "down"
    /\ job' = NoJob
    /\ sweep' = "none"
    /\ due' = {}
    /\ UNCHANGED <<lives, mine, slot, touched, net, proc, files>>

HostNext ==
    \/ \E x \in Process : EnterNetns(x) \/ Exits(x)
    \/ \E m \in Machine : Fork(m) \/ Launch(m) \/ Destroy(m)
    \/ Purge \/ SpawnVM \/ Started \/ SpawnVMFails \/ Stop \/ Destroyed
    \/ RebuildPurges \/ RebuildDeletes \/ RebuildAdds \/ RebuildEnds
    \/ RebuildFails \/ Start \/ Signal \/ EndSweeps \/ Sweep \/ SweepEnds \/ Crash

HostSpec == HostInit /\ [][HostNext]_hostVars

(***************************************************************************)
(* Properties                                                              *)
(***************************************************************************)
\* Processes of two VMs are never in one namespace, and a free slot has none:
\* neither a destroy nor a failed launch nor an agent killed half-way leaves
\* the next VM a listener or a connection of an earlier one.
NamespacesHaveOneVM ==
    /\ \A x, y \in InNetns : x[1] = y[1]
    /\ agent = "up" /\ slot = "free" => InNetns = {}

\* An agent that is up shares its host with no VM of an earlier one, and with
\* no helper that could be found: only one whose namespace was deleted under a
\* launch, while the earlier agent shut down, can be left.
StartsAreClean ==
    agent = "up" =>
        \A x \in Alive : x[1] \notin mine => x[2] # "vm" /\ proc[x] = "lost"
=============================================================================
