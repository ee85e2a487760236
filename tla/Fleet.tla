------------------------------- MODULE Fleet --------------------------------
(***************************************************************************)
(* Placing sessions on hosts: registration and heartbeats of the node      *)
(* agents, the record the control plane keeps of a host, the reservations  *)
(* that creates hold on it, and chooseHost (src/api/scheduler.ts).         *)
(*                                                                         *)
(* The agent is what a heartbeat tells of it: sessions being launched and  *)
(* listed, warm VMs, and whether its resources are strained.  NodeAgent    *)
(* has the inside.  Free memory, /dev/shm, crashes and navigations are one *)
(* Boolean: agent and scheduler compare them with the same limits.  The    *)
(* store's calls are atomic (AtomicStore).                                 *)
(***************************************************************************)
EXTENDS Integers, FiniteSets, FiniteSetsExt

CONSTANTS Host,
          Creation,    \* POST /v1/sessions requests
          Region, RegionOf,    \* RegionOf[c]: the region asked for, or Unasked
          Profile, ProfileOf,  \* ProfileOf[c]: the runtime profile, or Unasked
          Unasked,
          Setup,       \* Setup[h]: configuration of host h
          MaxMail,     \* heartbeats of one host on the way at once (a bound)
          CreateWaits  \* CONTROL_PLANE_SCHEDULER_ADMISSION_WAIT_MS > 0?

ASSUME FleetAssumption ==
    /\ RegionOf \in [Creation -> Region \cup {Unasked}]
    /\ ProfileOf \in [Creation -> Profile \cup {Unasked}]
    /\ Unasked \notin Region \cup Profile \cup Host
    /\ Setup \in [Host -> [allowed : BOOLEAN, mode : {"baseline", "managed",
                           "firecracker"}, region : Region,
                           profiles : SUBSET Profile, sessions : Nat,
                           renderers : Nat, microvms : Nat, memory : Nat,
                           pool : Nat, free : Nat]]
    /\ MaxMail \in Nat
    /\ CreateWaits \in BOOLEAN

VARIABLES
    agent,    \* agent[h]: the node agent of h
    record,   \* record[h]: the host record of the store
    mail,     \* heartbeats on their way
    held,     \* held[c]: the host create reservation of c
    create,   \* create[c]: where the create handler is
    fresh     \* history: reservations made on the record as it is

fleetVars == <<agent, record, mail, held, create, fresh>>

Strain == {"none", "host", "cpu"}
Report == [status : {"healthy", "no-admit"}, active : Nat, renderers : Nat,
           microvms : Nat, warm : Nat, strain : Strain]
NoReport == [status |-> "unknown"]
NoHold == [host |-> Unasked, warm |-> FALSE]
Down == [up |-> FALSE, launching |-> {}, listed |-> {}, warm |-> 0]

FleetTypeOK ==
    /\ agent \in [Host -> [up : BOOLEAN, launching : SUBSET Creation,
                           listed : SUBSET Creation, warm : Nat]]
    /\ \A h \in Host : record[h] # NoReport => record[h] \in Report
    /\ \A m \in mail : m.host \in Host /\ m.report \in Report
    /\ held \in [Creation -> [host : Host \cup {Unasked}, warm : BOOLEAN]]
    /\ create \in [Creation -> {"new", "waiting", "asking", "over"}]
    /\ fresh \subseteq Creation

FleetInit == /\ agent = [h \in Host |-> Down]
             /\ record = [h \in Host |-> NoReport]
             /\ mail = {}
             /\ held = [c \in Creation |-> NoHold]
             /\ create = [c \in Creation |-> "new"]
             /\ fresh = {}

Count(S) == Cardinality(S)

(***************************************************************************)
(* #effectiveHosts: the record of a host and the reservations on it        *)
(***************************************************************************)
On(h) == {c \in Creation : held[c].host = h}

\* Reservations that take a warm VM: as many of those that expected one as
\* there are.  The others add a microVM.  In the other modes nothing is taken.
TakenWarm(h) == IF Setup[h].mode = "firecracker"
                THEN Min({record[h].warm, Count({c \in On(h) : held[c].warm})})
                ELSE 0

\* A fault: a reservation does not take the warm VM it expects.
EffectiveKeepsWarm(h) ==
    [record[h] EXCEPT !.active = @ + Count(On(h)),
                      !.renderers = @ + Count(On(h)),
                      !.microvms = @ + Count(On(h)) - TakenWarm(h)]

Effective(h) ==
    [record[h] EXCEPT !.active = @ + Count(On(h)),
                      !.renderers = @ + Count(On(h)),
                      !.warm = @ - TakenWarm(h),
                      !.microvms = IF Setup[h].mode = "firecracker"
                                   THEN @ + Count(On(h)) - TakenWarm(h) ELSE @]

(***************************************************************************)
(* chooseHost                                                              *)
(***************************************************************************)
\* matchingWarmReadyCount: only a host with one profile reports warm VMs.
WarmFor(h, c) ==
    IF \E p \in Profile : Setup[h].profiles = {p} /\ ProfileOf[c] \in {p, Unasked}
    THEN Effective(h).warm ELSE 0

Supports(h, c) == ProfileOf[c] = Unasked \/ Setup[h].profiles = {}
                                     \/ ProfileOf[c] \in Setup[h].profiles

\* The tests of chooseHost but the one of the status.  A borrowed warm VM
\* needs no session place, no microVM and no memory.
HasRoom(h, c) ==
    LET e == Effective(h)
        s == Setup[h]
        borrow == WarmFor(h, c) > 0
    IN  /\ Supports(h, c)
        /\ e.active < s.sessions \/ borrow
        /\ e.renderers < s.renderers
        /\ s.mode # "baseline" => e.strain # "host"
        /\ s.mode = "firecracker" =>
             /\ e.microvms < s.microvms \/ borrow
             /\ e.microvms + (IF borrow THEN 0 ELSE 1) <= s.memory

Eligible(c) ==
    {h \in Host : record[h] # NoReport /\ record[h].status = "healthy" /\ HasRoom(h, c)}

\* Those in the region asked for, if there are any.
Candidates(c) ==
    LET near == {h \in Eligible(c) : Setup[h].region = RegionOf[c]}
    IN  IF near # {} THEN near ELSE Eligible(c)

\* scoreHost, with the memory of the host as it was configured to be free.
Score(h, c) ==
    LET e == Effective(h)
        s == Setup[h]
    IN  WarmFor(h, c) * 1000000 + (s.sessions - e.active) * 10000
          + (IF s.mode = "firecracker" THEN (s.microvms - e.microvms) * 5000 ELSE 0)
          + s.free * 10

Best(c) == {h \in Candidates(c) : \A g \in Candidates(c) : Score(g, c) <= Score(h, c)}

(***************************************************************************)
(* The create handler: reserveHostForCreate with backpressure, the launch, *)
(* the release                                                             *)
(***************************************************************************)
\* The host is chosen and the reservation written under one store lock.
Reserve(c) ==
    /\ create[c] \in {"new", "waiting"}
    /\ \E h \in Best(c) :
         held' = [held EXCEPT ![c] = [host |-> h, warm |-> WarmFor(h, c) > 0]]
    /\ create' = [create EXCEPT ![c] = "asking"]
    /\ fresh' = fresh \cup {c}
    /\ UNCHANGED <<agent, record, mail>>

\* No host is eligible: wait and try again, or 503 at the deadline.
NoHost(c) ==
    /\ create[c] \in {"new", "waiting"}
    /\ Eligible(c) = {}
    /\ create' = [create EXCEPT ![c] =
                    IF create[c] = "new" /\ CreateWaits THEN "waiting" ELSE "over"]
    /\ UNCHANGED <<agent, record, mail, held, fresh>>

\* The agent answered, with a session or an error, or the request timed out:
\* the commit or the catch gives the reservation back.
Release(c) ==
    /\ create[c] = "asking"
    /\ create' = [create EXCEPT ![c] = "over"]
    /\ held' = [held EXCEPT ![c] = NoHold]
    /\ fresh' = fresh \ {c}
    /\ UNCHANGED <<agent, record, mail>>

\* The control plane dies with the handler; the reservation stays in the store.
HandlerDies(c) ==
    /\ create[c] = "asking"
    /\ create' = [create EXCEPT ![c] = "over"]
    /\ UNCHANGED <<agent, record, mail, held, fresh>>

\* Its expiresAt has passed, which comes after the handler's own time-out.
HoldExpires(c) ==
    /\ create[c] = "over"
    /\ held[c] # NoHold
    /\ held' = [held EXCEPT ![c] = NoHold]
    /\ fresh' = fresh \ {c}
    /\ UNCHANGED <<agent, record, mail, create>>

(***************************************************************************)
(* The agent                                                               *)
(***************************************************************************)
Change(h, a) == /\ agent' = [agent EXCEPT ![h] = a]
                /\ UNCHANGED <<record, mail, held, create, fresh>>

Busy(h) == agent[h].launching \cup agent[h].listed
Machines(h) == agent[h].warm + Count(agent[h].listed)

\* launchSession of c, which comes once, and finds a place.
AgentAccepts(h, c) ==
    /\ agent[h].up
    /\ held[c].host = h
    /\ create[c] = "asking"
    /\ \A g \in Host : c \notin Busy(g)
    /\ Count(Busy(h)) < Setup[h].sessions
         + (IF Setup[h].mode = "firecracker" THEN agent[h].warm ELSE 0)
    /\ Change(h, [agent[h] EXCEPT !.launching = @ \cup {c}])

\* It ends: with a warm VM, a cold one, or an error.
AgentLists(h, c) ==
    /\ c \in agent[h].launching
    /\ \E w \in {0, 1} :
         /\ w <= agent[h].warm
         /\ Change(h, [agent[h] EXCEPT !.launching = @ \ {c},
                                       !.listed = @ \cup {c}, !.warm = @ - w])

AgentGivesUp(h, c) ==
    /\ c \in agent[h].launching
    /\ Change(h, [agent[h] EXCEPT !.launching = @ \ {c}])

AgentEndsSession(h, c) ==
    /\ c \in agent[h].listed
    /\ Change(h, [agent[h] EXCEPT !.listed = @ \ {c}])

Refill(h) ==
    /\ agent[h].up
    /\ agent[h].warm < Setup[h].pool
    /\ Machines(h) < Setup[h].microvms
    /\ Change(h, [agent[h] EXCEPT !.warm = @ + 1])

AgentDies(h) == agent[h].up /\ Change(h, Down)

\* register: 403 unless the allowlist has the host enabled; else a new record.
Register(h) ==
    /\ ~agent[h].up
    /\ Setup[h].allowed
    /\ agent' = [agent EXCEPT ![h].up = TRUE]
    /\ record' = [record EXCEPT ![h] =
                    [status |-> "healthy", active |-> 0, renderers |-> 0,
                     microvms |-> 0, warm |-> 0, strain |-> "none"]]
    /\ fresh' = {c \in fresh : held[c].host # h}
    /\ UNCHANGED <<mail, held, create>>

\* A fault: a full host is closed although it has warm VMs.
StatusClosesFull(h, strain, active, renderers, microvms, warm) ==
    IF \/ active >= Setup[h].sessions
       \/ Setup[h].mode # "baseline" /\
            \/ strain # "none"
            \/ renderers >= Setup[h].renderers
            \/ Setup[h].mode = "firecracker" /\ microvms >= Setup[h].microvms
    THEN "no-admit" ELSE "healthy"

\* #deriveStatus: a full host with warm VMs stays open to those who borrow one.
DeriveStatus(h, strain, active, renderers, microvms, warm) ==
    LET s == Setup[h]
        borrow == s.mode = "firecracker" /\ warm > 0
    IN  IF \/ active >= s.sessions /\ ~borrow
           \/ s.mode # "baseline" /\
                \/ strain = "host"
                \/ strain = "cpu" /\ s.mode = "firecracker"
                \/ renderers >= s.renderers
                \/ s.mode = "firecracker" /\ microvms >= s.microvms /\ ~borrow
        THEN "no-admit" ELSE "healthy"

\* sendHeartbeat, with what collectHostMetrics finds: launches count as
\* sessions, not as renderers; of their VMs some are tracked already.
Heartbeat(h) ==
    /\ agent[h].up
    /\ Count({m \in mail : m.host = h}) < MaxMail
    /\ \E strain \in Strain, spawned \in 0..Count(agent[h].launching) :
         LET active == Count(Busy(h))
             renderers == Count(agent[h].listed)
             warm == agent[h].warm
             microvms == IF Setup[h].mode = "firecracker"
                         THEN Machines(h) + spawned ELSE 0
         IN  mail' = mail \cup
               {[host |-> h,
                 report |-> [status |-> DeriveStatus(h, strain, active, renderers,
                                                     microvms, warm),
                             active |-> active, renderers |-> renderers,
                             microvms |-> microvms, warm |-> warm,
                             strain |-> strain]]}
    /\ UNCHANGED <<agent, record, held, create, fresh>>

\* A heartbeat arrives, in any order: 404 for a host that is not registered,
\* else its status and its metrics replace those of the record.
HeartbeatArrives(m) ==
    /\ m \in mail
    /\ mail' = mail \ {m}
    /\ IF record[m.host] = NoReport THEN UNCHANGED <<record, fresh>>
       ELSE /\ record' = [record EXCEPT ![m.host] = m.report]
            /\ fresh' = {c \in fresh : held[c].host # m.host}
    /\ UNCHANGED <<agent, held, create>>

HeartbeatLost(m) ==
    /\ m \in mail
    /\ mail' = mail \ {m}
    /\ UNCHANGED <<agent, record, held, create, fresh>>

FleetNext ==
    \/ \E c \in Creation :
         \/ Reserve(c) \/ NoHost(c) \/ Release(c) \/ HandlerDies(c) \/ HoldExpires(c)
         \/ \E h \in Host : \/ AgentAccepts(h, c) \/ AgentLists(h, c)
                            \/ AgentGivesUp(h, c) \/ AgentEndsSession(h, c)
    \/ \E h \in Host : Refill(h) \/ AgentDies(h) \/ Register(h) \/ Heartbeat(h)
    \/ \E m \in mail : HeartbeatArrives(m) \/ HeartbeatLost(m)

FleetSpec == FleetInit /\ [][FleetNext]_fleetVars

(***************************************************************************)
(* Properties                                                              *)
(***************************************************************************)
\* What one report of a host offers is promised once: the reservations made on
\* it fit into its free sessions and its warm VMs, those that expect a warm VM
\* have one each, and the others fit under the cap of microVMs.  Not so for a
\* managed host with a warm pool, where a reservation takes no warm container
\* and every create may borrow the same one.
ReportedRoomIsSharedOnce ==
    \A h \in Host :
      LET F == {c \in fresh : held[c].host = h}
          cold == {c \in F : ~held[c].warm}
          r == record[h]
      IN  F # {} /\ (Setup[h].mode = "firecracker" \/ Setup[h].pool = 0) =>
            /\ Count(F \ cold) <= r.warm
            /\ Count(F) <= Max({0, Setup[h].sessions - r.active}) + r.warm
            /\ Setup[h].mode = "firecracker" /\ cold # {}
                 => r.microvms + Count(cold) <= Setup[h].microvms

\* A host that calls itself full has no place the scheduler would give: the
\* agent's status and the scheduler's tests agree on who may borrow a warm VM,
\* whatever was promised since ("Warm-borrow consistency", agent.ts:1472).  A
\* managed host with a warm pool is again another matter: the scheduler would
\* lend a warm container of a full one, the agent does not.
ClosedHostsAreFull ==
    \A h \in Host :
      (Setup[h].mode = "firecracker" \/ Setup[h].pool = 0) /\ record[h] # NoReport
        /\ record[h].status = "no-admit" /\ record[h].strain # "cpu"
        => \A c \in Creation : ~HasRoom(h, c)
=============================================================================
