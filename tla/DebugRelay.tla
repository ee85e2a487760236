----------------------------- MODULE DebugRelay -----------------------------
(***************************************************************************)
(* The TCP relay between the clients of a microVM's DevTools port and the  *)
(* guest, and the agent's own probes of it (createTcpRelay, waitForJson,   *)
(* waitForDevtoolsTargetList, waitForWebSocketUpgrade and                  *)
(* #probeWarmMachine of src/node-agent/firecracker.ts).  A pair of sockets *)
(* joins client and guest; the end of one side travels to the other, and   *)
(* closing the relay must get rid of them all.                             *)
(***************************************************************************)
EXTENDS Naturals, FiniteSets

CONSTANT Link  \* pairs of sockets there can be at a time

VARIABLES
    relay,    \* listening ("open"), "closing", or "closed"
    near,     \* near[l]: the socket to the client; "fin": it has sent a FIN
    far,      \* far[l]: the socket to the guest
    tracked,  \* pairs in the set `sockets`
    probe,    \* the probe: its stage, and the pair of its attempt
    late      \* its deadline has passed

relayVars == <<relay, near, far, tracked, probe, late>>

RelayTypeOK ==
    /\ relay \in {"open", "closing", "closed"}
    /\ near \in [Link -> {"none", "open", "fin"}]
    /\ far \in [Link -> {"none", "open", "fin"}]
    /\ tracked \subseteq Link
    /\ probe.stage \in {"version", "list", "upgrade",
                        "verified", "failed", "silent"}
    /\ probe.on \subseteq Link /\ Cardinality(probe.on) <= 1
    /\ late \in BOOLEAN

RelayInit == /\ relay = "open"
             /\ near = [l \in Link |-> "none"]
             /\ far = [l \in Link |-> "none"]
             /\ tracked = {}
             /\ probe = [stage |-> "version", on |-> {}]
             /\ late = FALSE

Sockets(l, n, f) == /\ near' = [near EXCEPT ![l] = n]
                    /\ far' = [far EXCEPT ![l] = f]

\* 'close' of either socket takes both out of the set.
Cleanup(l) == tracked' = tracked \ {l}

\* A client's connection is accepted and one to the guest is begun.
Accept(l) ==
    /\ relay = "open"
    /\ near[l] = "none" /\ far[l] = "none" /\ l \notin probe.on
    /\ Sockets(l, "open", "open")
    /\ tracked' = tracked \cup {l}
    /\ UNCHANGED <<relay, late>>

Connect(l) == Accept(l) /\ UNCHANGED probe

\* What follows when the client's side ends: its socket closes, and the pipe
\* sends the guest a FIN.
Fin(side) == IF side = "open" THEN "fin" ELSE side
ClientGone(l) == /\ Sockets(l, "none", Fin(far[l]))
                 /\ Cleanup(l)

\* The client ends its side, or answers the FIN it was sent.
ClientEnds(l) == /\ near[l] # "none" /\ l \notin probe.on
                 /\ ClientGone(l)
                 /\ UNCHANGED <<relay, probe, late>>

\* The guest ends its side: the pipe sends the client a FIN.  Or it answers.
GuestEnds(l) == /\ far[l] # "none"
                /\ Sockets(l, Fin(near[l]), "none")
                /\ Cleanup(l)
                /\ UNCHANGED <<relay, probe, late>>

\* 'error' of the socket to the guest, refused connections included, destroys
\* the client's.
GuestFails(l) == /\ far[l] # "none"
                 /\ Sockets(l, "none", "none")
                 /\ Cleanup(l)
                 /\ UNCHANGED <<relay, probe, late>>

\* A fault: close() waits for the clients to go.
CloseWaits == /\ relay = "open"
              /\ relay' = "closing"
              /\ UNCHANGED <<near, far, tracked, probe, late>>

\* close(): the sockets of the set are destroyed, the server listens no more ...
Close == /\ relay = "open"
         /\ relay' = "closing"
         /\ near' = [l \in Link |-> IF l \in tracked THEN "none" ELSE near[l]]
         /\ far' = [l \in Link |-> IF l \in tracked THEN "none" ELSE far[l]]
         /\ tracked' = {}
         /\ UNCHANGED <<probe, late>>

\* ... and returns when no client's socket is left.
Closed == /\ relay = "closing"
          /\ \A l \in Link : near[l] = "none"
          /\ relay' = "closed"
          /\ UNCHANGED <<near, far, tracked, probe, late>>

(***************************************************************************)
(* The probe                                                               *)
(***************************************************************************)
Probing == probe.stage \in {"version", "list", "upgrade"}
Deadline == Probing /\ ~late /\ late' = TRUE
            /\ UNCHANGED <<relay, near, far, tracked, probe>>

\* An attempt of the stage; nothing listens on a relay that is closing, and the
\* attempt has failed at once.
Attempt(l) == /\ Probing /\ probe.on = {} /\ ~late
              /\ Accept(l)
              /\ probe' = [probe EXCEPT !.on = {l}]

OutOfTime == /\ Probing /\ probe.on = {} /\ late
             /\ probe' = [probe EXCEPT !.stage = "failed"]
             /\ UNCHANGED <<relay, near, far, tracked, late>>

Following(stage) == CASE stage = "version" -> "list"
                  [] stage = "list" -> "upgrade"
                  [] OTHER -> "verified"

\* The guest answers, with what is asked for or not.  fetch keeps its
\* connection; the WebSocket probe ends its own.
Answered(l) ==
    /\ l \in probe.on
    /\ near[l] = "open" /\ far[l] = "open"
    /\ \E good \in BOOLEAN :
         probe' = [on |-> {}, stage |-> IF good THEN Following(probe.stage)
                                                ELSE probe.stage]
    /\ IF probe.stage = "upgrade" THEN ClientGone(l)
                                  ELSE UNCHANGED <<near, far, tracked>>
    /\ UNCHANGED <<relay, late>>

Abandon(l) == /\ ClientGone(l)
              /\ probe' = [probe EXCEPT !.on = {}]
              /\ UNCHANGED <<relay, late>>

\* A fault: only the WebSocket probe has a time-out of its own.
FetchWaits(l) == /\ l \in probe.on /\ near[l] = "open"
                 /\ probe.stage = "upgrade"
                 /\ Abandon(l)

\* The time-out of an attempt, 5 s at most: abort() of the fetch, destroy() of
\* the WebSocket probe's socket.
AttemptTimesOut(l) == l \in probe.on /\ near[l] = "open" /\ Abandon(l)

\* The connection goes before the answer.  A fetch fails and is tried again.
\* The WebSocket probe listens for errors alone: reset, it tries again; ended in
\* order, its socket is destroyed by the time the timer destroys it, no event
\* follows, and the promise is never settled.
AttemptIsLost(l) ==
    /\ l \in probe.on /\ near[l] # "open"
    /\ ClientGone(l)
    /\ \/ probe' = [probe EXCEPT !.on = {}]
       \/ /\ probe.stage = "upgrade"
          /\ probe' = [stage |-> "silent", on |-> {}]
    /\ UNCHANGED <<relay, late>>

RelayNext ==
    \/ Close \/ Closed \/ Deadline \/ OutOfTime
    \/ \E l \in Link : \/ Connect(l) \/ ClientEnds(l) \/ GuestEnds(l)
                       \/ GuestFails(l) \/ Attempt(l) \/ Answered(l)
                       \/ AttemptTimesOut(l) \/ AttemptIsLost(l)

\* Timers fire and callbacks run.  Neither clients nor guests need do anything.
RelayFairness ==
    /\ WF_relayVars(Closed) /\ WF_relayVars(Deadline) /\ WF_relayVars(OutOfTime)
    /\ \A l \in Link : /\ WF_relayVars(AttemptTimesOut(l))
                       /\ WF_relayVars(AttemptIsLost(l))

RelaySpec == RelayInit /\ [][RelayNext]_relayVars /\ RelayFairness

(***************************************************************************)
(* Properties                                                              *)
(***************************************************************************)
\* A relay that is closed gets rid of every connection, and the destruction of
\* its VM goes on, unless a client that was sent a FIN, and so is in the set no
\* more, keeps its own side open.
RelaysClose ==
    relay = "closing" /\ (\A l \in Link : near[l] # "fin") ~> relay = "closed"

\* A probe comes to a verdict whatever the guest does, and whenever the relay
\* is closed, but for a WebSocket probe whose connection is ended in order.
ProbesSettle == Probing ~> probe.stage \in {"verified", "failed", "silent"}
=============================================================================
