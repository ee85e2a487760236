----------------------------- MODULE EgressProxy -----------------------------
(***************************************************************************)
(* The egress proxy that runs beside a microVM and forwards its browser's  *)
(* connections (src/node-agent/firecracker-egress-proxy.ts): plain HTTP    *)
(* requests, and CONNECT tunnels made directly or through an upstream      *)
(* proxy.  One process serves all connections of its VM; nobody starts it  *)
(* again.  It has no time-outs of its own: names and connections fail in   *)
(* the end by those of the resolver and of TCP.                            *)
(***************************************************************************)
CONSTANTS Conn,       \* connections of the browser
          Upstreams   \* is there an upstream proxy? choices to explore

VARIABLES
    upstream,   \* FIRECRACKER_UPSTREAM_PROXY_URL is set
    proxy,      \* "up", or "dead"
    at,         \* at[t]: how far the proxy is with connection t
    told,       \* told[t]: the status line the client has got, last one first
    peer        \* peer[t]: the client's socket

egressVars == <<upstream, proxy, at, told, peer>>

\* Where the client waits for a status line.
Waiting == {"resolving", "connecting", "asking", "requesting"}

EgressTypeOK ==
    /\ upstream \in BOOLEAN
    /\ proxy \in {"up", "dead"}
    /\ at \in [Conn -> Waiting \cup {"new", "open", "silent", "over"}]
    /\ told \in [Conn -> {"nothing", "200", "400", "502", "502 after 200"}]
    /\ peer \in [Conn -> {"open", "destroyed", "reset"}]

EgressInit == /\ upstream \in Upstreams
              /\ proxy = "up"
              /\ at = [t \in Conn |-> "new"]
              /\ told = [t \in Conn |-> "nothing"]
              /\ peer = [t \in Conn |-> "open"]

Still(t, where) == proxy = "up" /\ at[t] = where
Moves(t, where) == at' = [at EXCEPT ![t] = where]

\* Writes a status line, unless the socket is destroyed, and destroys it.
Rejects(t, line) ==
    /\ Moves(t, "over")
    /\ told' = [told EXCEPT ![t] = IF peer[t] # "open" THEN @
                                   ELSE IF @ = "nothing" THEN line ELSE "502 after 200"]
    /\ peer' = [peer EXCEPT ![t] = IF @ = "open" THEN "destroyed" ELSE @]
    /\ UNCHANGED <<upstream, proxy>>

\* handleConnect: a target without host or port is 400.
Connects(t) ==
    /\ Still(t, "new")
    /\ \/ Rejects(t, "400")
       \/ Moves(t, "resolving") /\ UNCHANGED <<upstream, proxy, told, peer>>

\* resolveAddress of the target, or of the upstream proxy.
Resolves(t) ==
    /\ Still(t, "resolving")
    /\ Moves(t, "connecting")
    /\ UNCHANGED <<upstream, proxy, told, peer>>

\* A fault: the error is only logged.
ResolveFailsSilently(t) ==
    /\ Still(t, "resolving")
    /\ Moves(t, "over")
    /\ UNCHANGED <<upstream, proxy, told, peer>>

ResolveFails(t) == Still(t, "resolving") /\ Rejects(t, "502")

Opens(t) == /\ Moves(t, "open")
            /\ told' = [told EXCEPT ![t] = "200"]
            /\ UNCHANGED <<upstream, proxy, peer>>

\* Connected: 200 and pipes both ways, or the CONNECT of the upstream proxy.
Established(t) ==
    /\ Still(t, "connecting")
    /\ \/ upstream /\ Moves(t, "asking") /\ UNCHANGED <<upstream, proxy, told, peer>>
       \/ ~upstream /\ Opens(t)

\* The upstream proxy's header is complete: HTTP/1.x 200, or anything else.
UpstreamAnswers(t) == Still(t, "asking") /\ (Opens(t) \/ Rejects(t, "502"))

\* 'error' of the outgoing socket: 502, also into a tunnel that is open.
OutgoingFails(t) ==
    /\ \E where \in {"connecting", "asking", "open"} : Still(t, where)
    /\ Rejects(t, "502")

\* The other side closes in order.  An open tunnel ends; before the answer of
\* the upstream proxy there is no handler, and the client waits on.
OutgoingCloses(t) ==
    /\ \/ Still(t, "asking") /\ Moves(t, "silent")
       \/ Still(t, "open") /\ Moves(t, "over")
    /\ UNCHANGED <<upstream, proxy, told, peer>>

\* 'error' of the client's socket destroys the outgoing one.  While the name is
\* resolved no listener is attached yet, and Node ends the process.
ClientResets(t) ==
    /\ proxy = "up" /\ peer[t] = "open"
    /\ at[t] \in {"resolving", "connecting", "asking", "open", "silent"}
    /\ peer' = [peer EXCEPT ![t] = "reset"]
    /\ Moves(t, "over")
    /\ proxy' = IF at[t] = "resolving" THEN "dead" ELSE "up"
    /\ UNCHANGED <<upstream, told>>

\* handleHttpRequest: answered, or 502; an error after the header of the answer
\* only ends it.
Requests(t) ==
    /\ Still(t, "new")
    /\ Moves(t, "requesting")
    /\ UNCHANGED <<upstream, proxy, told, peer>>

RequestEnds(t) ==
    /\ Still(t, "requesting")
    /\ Moves(t, "over")
    /\ \E line \in {"200", "502"} : told' = [told EXCEPT ![t] = line]
    /\ UNCHANGED <<upstream, proxy, peer>>

\* SIGTERM when the VM is destroyed.
ProxyStops == /\ proxy = "up"
              /\ proxy' = "dead"
              /\ UNCHANGED <<upstream, at, told, peer>>

EgressNext ==
    \/ ProxyStops
    \/ \E t \in Conn :
         \/ Connects(t) \/ Resolves(t) \/ ResolveFails(t) \/ Established(t)
         \/ UpstreamAnswers(t) \/ OutgoingFails(t) \/ OutgoingCloses(t)
         \/ ClientResets(t) \/ Requests(t) \/ RequestEnds(t)

\* The resolver and TCP give up in the end, and an upstream proxy answers,
\* fails or closes; clients need not do anything.
EgressFairness(t) ==
    WF_egressVars(\/ Resolves(t) \/ ResolveFails(t) \/ Established(t)
                  \/ at[t] = "connecting" /\ OutgoingFails(t)
                  \/ at[t] = "asking" /\ (\/ UpstreamAnswers(t) \/ OutgoingFails(t)
                                         \/ OutgoingCloses(t))
                  \/ RequestEnds(t))

EgressSpec == /\ EgressInit /\ [][EgressNext]_egressVars
              /\ \A t \in Conn : EgressFairness(t)

\* While the proxy lives, whoever connects or asks gets a status line, or has
\* gone: no failure of a name, of a connection or of the upstream proxy leaves
\* a client without an answer, but the one where the upstream proxy closes
\* before its own.
ClientsAreAnswered ==
    \A t \in Conn :
      at[t] \in Waiting ~> \/ told[t] # "nothing" \/ peer[t] # "open"
                           \/ at[t] = "silent" \/ proxy = "dead"
=============================================================================
