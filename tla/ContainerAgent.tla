--------------------------- MODULE ContainerAgent ----------------------------
(***************************************************************************)
(* The node agent in its container modes, "baseline" and "managed": which  *)
(* Docker container is whose, through launches, the warm pool, the monitor *)
(* and terminations (src/node-agent/agent.ts over docker.ts; the inside of *)
(* a container is src/runtime/server.ts).                                  *)
(*                                                                         *)
(* Every docker command is a child process and may fail; what the agent    *)
(* takes a failure for is what matters here.  A session is asked for once. *)
(***************************************************************************)
EXTENDS Integers, Sequences, FiniteSets

CONSTANTS Sess, Box,      \* sessions; containers there may be (a bound)
          MaxSessions, WarmSize, WarmReserve, WarmBuilders,
          KeepFailed      \* keepFailedRuntimes

ASSUME ContainerAssumption ==
    /\ {MaxSessions, WarmSize, WarmReserve, WarmBuilders} \subseteq Nat
    /\ KeepFailed \in BOOLEAN

VARIABLES
    box,       \* box[b]: the container, as Docker has it
    launching, \* launching[s]: where launchSession of s is
    hand,      \* hand[s]: the container it holds, {} or {b}
    list,      \* list[s]: #sessions, {} or {b}
    warmPool,  \* #warmPool
    making,    \* warm containers being prepared
    filling,   \* #warmPoolFillPromise
    rms,       \* terminateSession calls that hold a container
    pass,      \* what is left of a pass of the monitor: [s, b, dead]
    excused    \* history: containers on which a docker command failed

boxVars == <<box, launching, hand, list, warmPool, making, filling, rms, pass, excused>>

BoxTypeOK ==
    /\ box \in [Box -> {"unborn", "booting", "running", "stopped", "gone"}]
    /\ launching \in [Sess -> {"new", "admitted", "inspecting", "preparing", "over"}]
    /\ hand \in [Sess -> SUBSET Box] /\ list \in [Sess -> SUBSET Box]
    /\ warmPool \in Seq(Box) /\ making \subseteq Box /\ filling \in BOOLEAN
    /\ rms \subseteq [s : Sess, b : Box]
    /\ pass \subseteq [s : Sess, b : Box, dead : BOOLEAN]
    /\ excused \subseteq Box

BoxInit == /\ box = [b \in Box |-> "unborn"]
           /\ launching = [s \in Sess |-> "new"]
           /\ hand = [s \in Sess |-> {}] /\ list = hand
           /\ warmPool = <<>> /\ making = {} /\ filling = FALSE
           /\ rms = {} /\ pass = {} /\ excused = {}

Launches == {s \in Sess : launching[s] \notin {"new", "over"}}
ListedSess == {s \in Sess : list[s] # {}}
Up(b) == box[b] \in {"booting", "running"}

\* docker rm -f, which may fail and then leaves the container.
DockerRemove(b) == \/ box' = [box EXCEPT ![b] = "gone"] /\ UNCHANGED excused
                   \/ Up(b) /\ excused' = excused \cup {b} /\ UNCHANGED box

\* dockerRun, with an id nobody has had.
NewBox(b) == box[b] = "unborn" /\ box' = [box EXCEPT ![b] = "booting"]

(***************************************************************************)
(* launchSession                                                           *)
(***************************************************************************)
LaunchAdmitted(s) ==
    /\ launching[s] = "new"
    /\ Cardinality(ListedSess) + Cardinality(Launches) < MaxSessions
    /\ launching' = [launching EXCEPT ![s] = "admitted"]
    /\ UNCHANGED <<box, hand, list, warmPool, making, filling, rms, pass, excused>>

\* No place, or #assertAdmission throws, or docker run does.
LaunchRefused(s) ==
    /\ launching[s] \in {"new", "admitted"}
    /\ launching' = [launching EXCEPT ![s] = "over"]
    /\ UNCHANGED <<box, hand, list, warmPool, making, filling, rms, pass, excused>>

\* A fault: the warm container leaves the pool once it is known to run.
TakesLater(s) ==
    /\ launching[s] = "admitted" /\ warmPool # <<>>
    /\ hand' = [hand EXCEPT ![s] = {Head(warmPool)}]
    /\ launching' = [launching EXCEPT ![s] = "inspecting"]
    /\ UNCHANGED <<box, list, warmPool, making, filling, rms, pass, excused>>

\* #acquireWarmRuntime takes the oldest warm container and inspects it.
TakesWarm(s) ==
    /\ launching[s] = "admitted" /\ warmPool # <<>>
    /\ hand' = [hand EXCEPT ![s] = {Head(warmPool)}]
    /\ warmPool' = Tail(warmPool)
    /\ launching' = [launching EXCEPT ![s] = "inspecting"]
    /\ UNCHANGED <<box, list, making, filling, rms, pass, excused>>

Lists(s) == /\ list' = [list EXCEPT ![s] = hand[s]]
            /\ hand' = [hand EXCEPT ![s] = {}]
            /\ launching' = [launching EXCEPT ![s] = "over"]

WarmRuns(s) ==
    /\ launching[s] = "inspecting"
    /\ \E b \in hand[s] : box[b] = "running"
    /\ Lists(s)
    /\ UNCHANGED <<box, warmPool, making, filling, rms, pass, excused>>

\* It does not run, or the inspection failed: it is removed, and the next
\* warm container is tried.
WarmGivenUp(s) ==
    /\ launching[s] = "inspecting"
    /\ \E b \in hand[s] : DockerRemove(b)
    /\ hand' = [hand EXCEPT ![s] = {}]
    /\ launching' = [launching EXCEPT ![s] = "admitted"]
    /\ UNCHANGED <<list, warmPool, making, filling, rms, pass>>

\* #prepareRuntime for the session: docker run, then waits for the health
\* port, and for the browser to name its WebSocket path.
RunsCold(s, b) ==
    /\ launching[s] = "admitted" /\ warmPool = <<>>
    /\ NewBox(b)
    /\ hand' = [hand EXCEPT ![s] = {b}]
    /\ launching' = [launching EXCEPT ![s] = "preparing"]
    /\ UNCHANGED <<list, warmPool, making, filling, rms, pass, excused>>

ColdReady(s) ==
    /\ launching[s] = "preparing"
    /\ \E b \in hand[s] : box[b] = "running"
    /\ Lists(s)
    /\ UNCHANGED <<box, warmPool, making, filling, rms, pass, excused>>

\* A preparation that fails removes its container, or keeps it to be looked at.
CleansUp(b) == IF KeepFailed THEN excused' = excused \cup {b} /\ UNCHANGED box
               ELSE DockerRemove(b)

ColdFails(s) ==
    /\ launching[s] = "preparing"
    /\ \E b \in hand[s] : CleansUp(b)
    /\ hand' = [hand EXCEPT ![s] = {}]
    /\ launching' = [launching EXCEPT ![s] = "over"]
    /\ UNCHANGED <<list, warmPool, making, filling, rms, pass>>

(***************************************************************************)
(* ensureWarmPool in managed mode                                          *)
(***************************************************************************)
\* shouldDeferWarmPoolMaintenance: not beside sessions or launches.  Fewer
\* containers come to be where docker run fails.
FillBegins ==
    /\ ListedSess \cup Launches = {} /\ ~filling
    /\ filling' = TRUE
    /\ \E S \in SUBSET {b \in Box : box[b] = "unborn"} :
         /\ Cardinality(S) <= WarmBuilders
         /\ Cardinality(S) <= WarmSize - Len(warmPool)
         /\ Cardinality(S) <= MaxSessions + WarmReserve - Len(warmPool)
         /\ making' = S
         /\ box' = [b \in Box |-> IF b \in S THEN "booting" ELSE box[b]]
    /\ UNCHANGED <<launching, hand, list, warmPool, rms, pass, excused>>

WarmReady(b) ==
    /\ b \in making /\ box[b] = "running"
    /\ making' = making \ {b}
    /\ warmPool' = Append(warmPool, b)
    /\ UNCHANGED <<box, launching, hand, list, filling, rms, pass, excused>>

WarmFails(b) ==
    /\ b \in making
    /\ CleansUp(b)
    /\ making' = making \ {b}
    /\ UNCHANGED <<launching, hand, list, warmPool, filling, rms, pass>>

FillDone ==
    /\ filling /\ making = {}
    /\ filling' = FALSE
    /\ UNCHANGED <<box, launching, hand, list, warmPool, making, rms, pass, excused>>

(***************************************************************************)
(* terminateSession and the monitor                                        *)
(***************************************************************************)
\* The call reads the session, waits for its logs, and then drops it.
Ends(s) ==
    /\ \E b \in list[s] : rms' = rms \cup {[s |-> s, b |-> b]}
    /\ UNCHANGED <<box, launching, hand, list, warmPool, making, filling, pass, excused>>

Removes(e) ==
    /\ e \in rms
    /\ list' = [list EXCEPT ![e.s] = {}]
    /\ rms' = rms \ {e}
    /\ DockerRemove(e.b)
    /\ UNCHANGED <<launching, hand, warmPool, making, filling, pass>>

\* A pass inspects all sessions.  An inspection that fails says "not running".
Looks ==
    /\ pass = {} /\ ListedSess # {}
    /\ \E failed \in SUBSET ListedSess :
         LET boxOf(s) == CHOOSE b \in list[s] : TRUE
             dead(s) == s \in failed \/ box[boxOf(s)] # "running"
         IN  /\ pass' = {[s |-> s, b |-> boxOf(s), dead |-> dead(s)] : s \in ListedSess}
             /\ excused' = excused \cup {boxOf(s) : s \in failed}
    /\ UNCHANGED <<box, launching, hand, list, warmPool, making, filling, rms>>

\* A session found dead is dropped and reported; its container is not removed,
\* for Docker removes what has ended.
Drops(v) ==
    /\ v \in pass /\ v.dead
    /\ pass' = pass \ {v}
    /\ list' = [list EXCEPT ![v.s] = {}]
    /\ UNCHANGED <<box, launching, hand, warmPool, making, filling, rms, excused>>

\* A living one is measured, reported, and ended when it is over a limit.
Measures(v) ==
    /\ v \in pass /\ ~v.dead
    /\ pass' = pass \ {v}
    /\ \/ UNCHANGED rms
       \/ \E b \in list[v.s] : rms' = rms \cup {[s |-> v.s, b |-> b]}
    /\ UNCHANGED <<box, launching, hand, list, warmPool, making, filling, excused>>

(***************************************************************************)
(* The container (src/runtime/server.ts)                                   *)
(***************************************************************************)
\* The browser is spawned, the relay listens, then the health port.
BoxBoots(b) ==
    /\ box[b] = "booting"
    /\ box' = [box EXCEPT ![b] = "running"]
    /\ UNCHANGED <<launching, hand, list, warmPool, making, filling, rms, pass, excused>>

\* The browser exits and the server with it; --rm removes the container.
BoxExits(b) ==
    /\ Up(b)
    /\ box' = [box EXCEPT ![b] = IF KeepFailed THEN "stopped" ELSE "gone"]
    /\ UNCHANGED <<launching, hand, list, warmPool, making, filling, rms, pass, excused>>

BoxNext ==
    \/ \E s \in Sess :
         \/ LaunchAdmitted(s) \/ LaunchRefused(s) \/ TakesWarm(s) \/ WarmRuns(s)
         \/ WarmGivenUp(s) \/ ColdReady(s) \/ ColdFails(s) \/ Ends(s)
         \/ \E b \in Box : RunsCold(s, b)
    \/ \E b \in Box : WarmReady(b) \/ WarmFails(b) \/ BoxBoots(b) \/ BoxExits(b)
    \/ FillBegins \/ FillDone \/ Looks
    \/ \E e \in rms : Removes(e)
    \/ \E v \in pass : Drops(v) \/ Measures(v)

BoxSpec == BoxInit /\ [][BoxNext]_boxVars

(***************************************************************************)
(* Properties                                                              *)
(***************************************************************************)
Owners(b) == {<<"launch", s>> : s \in {t \in Sess : b \in hand[t]}}
             \cup {<<"session", s>> : s \in {t \in Sess : b \in list[t]}}
             \cup {<<"pool", i>> : i \in {j \in DOMAIN warmPool : warmPool[j] = b}}
             \cup {<<"fill", b>> : x \in {y \in making : y = b}}

\* However launches, refills, failures, monitor passes and ends of sessions
\* interleave, a container that runs is in exactly one place: held by a launch
\* or a refill, in the warm pool, or in a session.  So no browser serves two
\* sessions, and none is left running that nobody will remove, unless a docker
\* command failed on it: the agent takes the failed inspection of a running
\* container for its end, and forgets it.
ContainersHaveOneOwner ==
    \A b \in Box : Up(b) =>
       \/ Cardinality(Owners(b)) = 1
       \/ b \in excused /\ Owners(b) = {}
=============================================================================
