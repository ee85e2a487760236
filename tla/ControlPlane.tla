---------------------------- MODULE ControlPlane ----------------------------
(***************************************************************************)
(* The life of a session in the control plane (src/api/server.ts): create  *)
(* with an Idempotency-Key and a host reservation, delete, the PATCHes the *)
(* node agent sends, and the agent's own view of the VM behind a session.  *)
(*                                                                         *)
(* A handler runs without interruption in its process up to an await on    *)
(* the network, so one action is one store call and a process is `busy`    *)
(* with a handler until its next await; listeners that are separate        *)
(* processes interleave at every store call.  Store calls are atomic:      *)
(* ControlPlaneStore is shown to implement AtomicStore.                    *)
(*                                                                         *)
(* A create request stands for the sessionId drawn for it.                 *)
(***************************************************************************)
EXTENDS Naturals, FiniteSets

CONSTANTS Request,      \* POST /v1/sessions requests, one sessionId each
          Key, KeyOf,   \* Idempotency-Keys; KeyOf[r] is the key r carries
          NoKey,        \* the request carries none
          Payload,      \* Payload[r]: requestHash of r
          Retention,    \* TERMINATED_SESSION_RETENTION
          Sequential,   \* do clients await an answer before using a key again?
          Split,        \* is the internal listener a process of its own?
          StoreFaults,  \* may a store write throw?
          AsyncDelete,  \* the settings of CONTROL_PLANE_ASYNC_SESSION_DELETE
          Nobody

Status == {"running", "terminated", "failed"}

\* What a handler goes on with after a store call.
Work == [does : {"commit again", "delete"}, of : Request]
          \cup [does : {"patch", "append"}, of : Request, status : Status]

ASSUME RequestAssumption ==
    /\ NoKey \notin Key
    /\ Nobody \notin Request \cup Work
    /\ KeyOf \in [Request -> Key \cup {NoKey}]
    /\ Retention \in Nat \ {0}
    /\ {Sequential, Split, StoreFaults} \subseteq BOOLEAN
    /\ AsyncDelete \subseteq BOOLEAN

Public == "public"                                  \* creates and deletes
Internal == IF Split THEN "internal" ELSE "public"  \* PATCHes of the agent

VARIABLES
    session,   \* session[r]: status of the record in the store
    lastEvent, \* lastEvent[r]: status in the newest event of r
    idem,      \* idem[k]: the session the idempotency record of k names
    reserved,  \* reserved[r]: the host create reservation of r is in the store
    create,    \* create[r]: where the create handler is, or how it answered
    deletes,   \* sessions whose synchronous delete awaits the agent
    busy,      \* busy[p]: what the process goes on with before its next await
    vm,        \* vm[r]: the VM of r at the node agent
    posts,     \* PATCHes on their way to the control plane
    drops      \* DELETEs on their way to the node agent

store == <<session, lastEvent, idem, reserved>>
agentVars == <<vm, posts, drops>>
vars == <<store, create, deletes, busy, agentVars>>

Post == [of : Request, status : Status]

\* A created session was answered 201; for an unconfirmed one the second
\* commit threw, so the client has an error and the store has the session.
Created == {"committed", "created", "unconfirmed"}

TypeOK ==
    /\ session \in [Request -> Status \cup {"none"}]
    /\ lastEvent \in [Request -> Status \cup {"none"}]
    /\ idem \in [Key -> Request \cup {Nobody}]
    /\ reserved \in [Request -> BOOLEAN]
    /\ create \in [Request -> Created \cup {"new", "creating", "replayed",
                                            "refused", "failed", "unreleased"}]
    /\ deletes \subseteq Request
    /\ busy \in [{"public", "internal"} -> Work \cup {Nobody}]
    /\ vm \in [Request -> {"none", "starting", "up", "refused", "over"}]
    /\ posts \subseteq Post
    /\ drops \subseteq Request

Init == /\ session = [r \in Request |-> "none"]
        /\ lastEvent = [r \in Request |-> "none"]
        /\ idem = [k \in Key |-> Nobody]
        /\ reserved = [r \in Request |-> FALSE]
        /\ create = [r \in Request |-> "new"]
        /\ deletes = {}
        /\ busy = [p \in {"public", "internal"} |-> Nobody]
        /\ vm = [r \in Request |-> "none"]
        /\ posts = {}
        /\ drops = {}

Idle(p) == busy[p] = Nobody
GoOn(p, with) == busy' = [busy EXCEPT ![p] = with]
Create(r, where) == create' = [create EXCEPT ![r] = where]

Terminated(s) == {r \in Request : s[r] = "terminated"}

\* #pruneTerminatedSessions: all but Retention terminated sessions go.  Which
\* are the newest is left open; endedAt is a clock reading of some process.
Pruned(s) == {P \in SUBSET Terminated(s) :
                LET left == Cardinality(Terminated(s) \ P)
                IN  left <= Retention /\ (P # {} => left = Retention)}

\* commitSessionMutation of a record with its event, if it comes with one.
Commit(r, status, event) ==
    LET s == [session EXCEPT ![r] = status]
        e == IF event THEN [lastEvent EXCEPT ![r] = status] ELSE lastEvent
    IN  \E P \in Pruned(s) :
          /\ session' = [q \in Request |-> IF q \in P THEN "none" ELSE s[q]]
          /\ lastEvent' = [q \in Request |-> IF q \in P THEN "none" ELSE e[q]]

(***************************************************************************)
(* createSessionFromRequest                                                *)
(***************************************************************************)
Answering == {"creating", "committed"}

Arrives(r) ==
    /\ create[r] = "new"
    /\ Idle(Public)
    /\ Sequential => \A q \in Request : KeyOf[q] = KeyOf[r] /\ KeyOf[r] # NoKey
                                          => create[q] \notin Answering

Known(r) == KeyOf[r] # NoKey /\ idem[KeyOf[r]] # Nobody

\* A fault: requestHash is not compared.
ReplayableAny(r) == session[idem[KeyOf[r]]] # "none"

\* The stored answer is for this payload and its session is still there.
Replayable(r) == /\ Payload[idem[KeyOf[r]]] = Payload[r]
                 /\ session[idem[KeyOf[r]]] # "none"

\* replayCreateIdempotency answers: the stored session, or 409.
CreateReplayed(r) ==
    /\ Arrives(r)
    /\ Known(r)
    /\ Create(r, IF Replayable(r) THEN "replayed" ELSE "refused")
    /\ UNCHANGED <<store, deletes, busy, agentVars>>

\* A host is reserved and the agent asked for a VM.
CreateReserves(r) ==
    /\ Arrives(r)
    /\ ~Known(r)
    /\ reserved' = [reserved EXCEPT ![r] = TRUE]
    /\ vm' = [vm EXCEPT ![r] = "starting"]
    /\ Create(r, "creating")
    /\ UNCHANGED <<session, lastEvent, idem, deletes, busy, posts, drops>>

\* No eligible host, or the store cannot be written.
CreateUnreserved(r) ==
    /\ Arrives(r)
    /\ ~Known(r)
    /\ Create(r, "refused")
    /\ UNCHANGED <<store, deletes, busy, agentVars>>

\* A fault: the reservation is left to its expiry.
CreateKeepsReservation(r) ==
    /\ create[r] = "creating"
    /\ Idle(Public)
    /\ Create(r, "failed")
    /\ UNCHANGED <<store, deletes, busy, agentVars>>

\* The agent's answer is lost to the time-out, or was an error: the reservation
\* is given back.  The VM may be up, or come up later.
CreateRemoteFails(r) ==
    /\ create[r] = "creating"
    /\ Idle(Public)
    /\ reserved' = [reserved EXCEPT ![r] = FALSE]
    /\ Create(r, "failed")
    /\ UNCHANGED <<session, lastEvent, idem, deletes, busy, agentVars>>

\* The store write after the agent's answer throws: the reservation stays, and
\* the VM, if there is one, has no record.
CreateThrows(r) ==
    /\ StoreFaults
    /\ create[r] = "creating"
    /\ Idle(Public)
    /\ Create(r, "unreleased")
    /\ UNCHANGED <<store, deletes, busy, agentVars>>

\* A fault: the idempotency record is not part of the first commit.
CreateCommitsNoKey(r) ==
    /\ create[r] = "creating"
    /\ vm[r] \in {"up", "over"}
    /\ Idle(Public)
    /\ Commit(r, "running", TRUE)
    /\ reserved' = [reserved EXCEPT ![r] = FALSE]
    /\ Create(r, "committed")
    /\ GoOn(Public, [does |-> "commit again", of |-> r])
    /\ UNCHANGED <<idem, deletes, agentVars>>

\* The VM is up: session, event, idempotency record and the release of the
\* reservation are one write.
CreateCommits(r) ==
    /\ create[r] = "creating"
    /\ vm[r] \in {"up", "over"}
    /\ Idle(Public)
    /\ Commit(r, "running", TRUE)
    /\ reserved' = [reserved EXCEPT ![r] = FALSE]
    /\ idem' = [k \in Key |-> IF k = KeyOf[r] THEN r ELSE idem[k]]
    /\ Create(r, "committed")
    /\ GoOn(Public, [does |-> "commit again", of |-> r])
    /\ UNCHANGED <<deletes, agentVars>>

\* The second commit rewrites the record with its timings; then 201.
CreateCommitsAgain(r) ==
    /\ busy[Public] = [does |-> "commit again", of |-> r]
    /\ \/ /\ Commit(r, "running", FALSE)
          /\ Create(r, "created")
       \/ /\ StoreFaults
          /\ Create(r, "unconfirmed")
          /\ UNCHANGED <<session, lastEvent>>
    /\ GoOn(Public, Nobody)
    /\ UNCHANGED <<idem, reserved, deletes, agentVars>>

\* The reservation's expiresAt has passed.  HOST_CREATE_RESERVATION_TTL_MS is
\* at least 5 s longer than the create waits for the agent.
ReservationExpires(r) ==
    /\ reserved[r]
    /\ create[r] # "creating"
    /\ reserved' = [reserved EXCEPT ![r] = FALSE]
    /\ UNCHANGED <<session, lastEvent, idem, create, deletes, busy, agentVars>>

(***************************************************************************)
(* deleteSessionFromRequest; a session that is gone or terminated is 204   *)
(***************************************************************************)
DeleteBegins(r) ==
    /\ Idle(Public)
    /\ session[r] \in {"running", "failed"}
    /\ \/ /\ TRUE \in AsyncDelete
          /\ GoOn(Public, [does |-> "delete", of |-> r])
          /\ UNCHANGED <<deletes, drops>>
       \/ /\ FALSE \in AsyncDelete
          /\ deletes' = deletes \cup {r}
          /\ drops' = drops \cup {r}
          /\ UNCHANGED busy
    /\ UNCHANGED <<store, create, vm, posts>>

\* A fault: the event is not part of the write.
DeleteCommitsNoEvent(r) ==
    /\ busy[Public] = [does |-> "delete", of |-> r]
    /\ Commit(r, "terminated", FALSE)
    /\ drops' = drops \cup {r}
    /\ GoOn(Public, Nobody)
    /\ UNCHANGED <<idem, reserved, create, deletes, vm, posts>>

\* Asynchronous: mark it terminated, answer, and let the agent know.
DeleteCommits(r) ==
    /\ busy[Public] = [does |-> "delete", of |-> r]
    /\ Commit(r, "terminated", TRUE)
    /\ drops' = drops \cup {r}
    /\ GoOn(Public, Nobody)
    /\ UNCHANGED <<idem, reserved, create, deletes, vm, posts>>

\* Synchronous: the agent has answered; the record read before is written back.
DeleteReturns(r) ==
    /\ r \in deletes \ drops
    /\ Idle(Public)
    /\ Commit(r, "terminated", TRUE)
    /\ deletes' = deletes \ {r}
    /\ UNCHANGED <<idem, reserved, create, busy, agentVars>>

\* The remote call or the store write throws: nothing is recorded.
DeleteThrows(r) ==
    \/ /\ StoreFaults
       /\ busy[Public] = [does |-> "delete", of |-> r]
       /\ GoOn(Public, Nobody)
       /\ UNCHANGED <<store, create, deletes, agentVars>>
    \/ /\ r \in deletes
       /\ Idle(Public)
       /\ deletes' = deletes \ {r}
       /\ UNCHANGED <<store, create, busy, agentVars>>

(***************************************************************************)
(* PATCH /internal/sessions/:sessionId                                     *)
(***************************************************************************)
\* A fault: a report is written whether or not there is a record.
PatchBeginsUnread(m) ==
    /\ m \in posts
    /\ Idle(Internal)
    /\ posts' = posts \ {m}
    /\ GoOn(Internal, [does |-> "patch", of |-> m.of, status |-> m.status])
    /\ UNCHANGED <<store, create, deletes, vm, drops>>

\* The record is read; without one the answer is 404 and the report is lost.
PatchBegins(m) ==
    /\ m \in posts
    /\ Idle(Internal)
    /\ posts' = posts \ {m}
    /\ IF session[m.of] = "none" THEN UNCHANGED busy
       ELSE GoOn(Internal, [does |-> "patch", of |-> m.of, status |-> m.status])
    /\ UNCHANGED <<store, create, deletes, vm, drops>>

\* The record, as it was read but for the status, is written back.
PatchWrites(r) ==
    \E st \in Status :
      /\ busy[Internal] = [does |-> "patch", of |-> r, status |-> st]
      /\ session' = [session EXCEPT ![r] = st]
      /\ GoOn(Internal, [does |-> "append", of |-> r, status |-> st])
      /\ UNCHANGED <<lastEvent, idem, reserved, create, deletes, agentVars>>

PatchAppends(r) ==
    \E st \in Status :
      /\ busy[Internal] = [does |-> "append", of |-> r, status |-> st]
      /\ lastEvent' = [lastEvent EXCEPT ![r] = st]
      /\ GoOn(Internal, Nobody)
      /\ UNCHANGED <<session, idem, reserved, create, deletes, agentVars>>

PatchThrows(r) ==
    /\ StoreFaults
    /\ busy[Internal] # Nobody
    /\ busy[Internal].of = r
    /\ busy[Internal].does \in {"patch", "append"}
    /\ GoOn(Internal, Nobody)
    /\ UNCHANGED <<store, create, deletes, agentVars>>

(***************************************************************************)
(* The node agent                                                          *)
(***************************************************************************)
\* launchSession ends, however long the control plane waited for it.
AgentLaunches(r) ==
    /\ vm[r] = "starting"
    /\ \E v \in {"up", "refused"} : vm' = [vm EXCEPT ![r] = v]
    /\ UNCHANGED <<store, create, deletes, busy, posts, drops>>

\* monitorSessions reports a session it sees running.
AgentReports(r) ==
    /\ vm[r] = "up"
    /\ posts' = posts \cup {[of |-> r, status |-> "running"]}
    /\ UNCHANGED <<store, create, deletes, busy, vm, drops>>

\* A fault: the agent reports a status that the store has no name for.
AgentExits(r) ==
    /\ vm[r] = "up"
    /\ vm' = [vm EXCEPT ![r] = "over"]
    /\ posts' = posts \cup {[of |-> r, status |-> "exited"]}
    /\ UNCHANGED <<store, create, deletes, busy, drops>>

\* A fault: only a session that the control plane has a record of expires.
AgentEndsRecorded(r) ==
    /\ vm[r] = "up"
    /\ session[r] # "none"
    /\ vm' = [vm EXCEPT ![r] = "over"]
    /\ \E st \in {"terminated", "failed"} :
         posts' = posts \cup {[of |-> r, status |-> st]}
    /\ UNCHANGED <<store, create, deletes, busy, drops>>

\* The session expires, breaks a limit or crashes: the end is reported once.
AgentEnds(r) ==
    /\ vm[r] = "up"
    /\ vm' = [vm EXCEPT ![r] = "over"]
    /\ \E st \in {"terminated", "failed"} :
         posts' = posts \cup {[of |-> r, status |-> st]}
    /\ UNCHANGED <<store, create, deletes, busy, drops>>

\* DELETE reaches the agent; a session it does not have is left alone.
AgentDeletes(r) ==
    /\ r \in drops
    /\ drops' = drops \ {r}
    /\ IF vm[r] = "up"
       THEN /\ vm' = [vm EXCEPT ![r] = "over"]
            /\ posts' = posts \cup {[of |-> r, status |-> "terminated"]}
       ELSE UNCHANGED <<vm, posts>>
    /\ UNCHANGED <<store, create, deletes, busy>>

\* A request between the two is lost; neither is sent again.
PostLost(m) == /\ m \in posts
               /\ posts' = posts \ {m}
               /\ UNCHANGED <<store, create, deletes, busy, vm, drops>>

DropLost(r) == /\ r \in drops
               /\ drops' = drops \ {r}
               /\ deletes' = deletes \ {r}
               /\ UNCHANGED <<store, create, busy, vm, posts>>

CreateStep(r) ==
    \/ CreateReplayed(r) \/ CreateReserves(r) \/ CreateUnreserved(r)
    \/ CreateRemoteFails(r) \/ CreateThrows(r)
    \/ CreateCommits(r) \/ CreateCommitsAgain(r)

DeleteStep(r) ==
    DeleteBegins(r) \/ DeleteCommits(r) \/ DeleteReturns(r) \/ DeleteThrows(r)

PatchStep(r) == PatchWrites(r) \/ PatchAppends(r) \/ PatchThrows(r)

AgentStep(r) ==
    AgentLaunches(r) \/ AgentReports(r) \/ AgentEnds(r) \/ AgentDeletes(r)

Next ==
    \/ \E r \in Request :
         \/ CreateStep(r) \/ ReservationExpires(r)
         \/ DeleteStep(r) \/ PatchStep(r) \/ AgentStep(r) \/ DropLost(r)
    \/ \E m \in posts : PatchBegins(m) \/ PostLost(m)

Spec == Init /\ [][Next]_vars

\* The agent ends a launch and expires a session, and a handler goes on, by
\* timers and time-outs of their own.
Fairness ==
    \A r \in Request :
      /\ WF_vars(AgentLaunches(r) \/ AgentEnds(r))
      /\ WF_vars(CreateCommitsAgain(r) \/ DeleteCommits(r) \/ DeleteThrows(r))
      /\ WF_vars(PatchStep(r))
      /\ SF_vars(CreateCommits(r) \/ CreateRemoteFails(r) \/ CreateThrows(r))

FairSpec == Spec /\ Fairness

(***************************************************************************)
(* Properties                                                              *)
(***************************************************************************)
\* Under one Idempotency-Key at most one session is ever recorded, whatever
\* answers were lost (docs/provider-api-scaffold.md: "persistent replay
\* protection scoped to the partner key and route").
KeyNamesOneSession ==
    \A q, r \in Request :
      /\ create[q] \in Created /\ create[r] \in Created
      /\ KeyOf[q] = KeyOf[r] /\ KeyOf[r] # NoKey
      => q = r

\* A create is made from the moment its session is recorded.
Answered(r) == CASE create[r] \in {"new", "creating"} -> "none"
                 [] create[r] \in Created -> "made"
                 [] create[r] = "replayed" -> "same"
                 [] OTHER -> "failed"

Idempotent == INSTANCE IdempotentCreates
                WITH made <- idem,
                     answer <- [r \in Request |-> Answered(r)],
                     recorded <- {r \in Request : session[r] # "none"}

\* Although a create awaits the node agent between its look at the idempotency
\* record and the write of it, creates under one key act as if they were made
\* one after the other, each at one moment (docs/provider-api-scaffold.md).
ImplementsIdempotentCreates == Idempotent!Spec

\* Requests answered with a session under one key asked for the same thing.
RepliesAgree ==
    \A q, r \in Request :
      /\ create[q] \in Created \cup {"replayed"}
      /\ create[r] \in Created \cup {"replayed"}
      /\ KeyOf[q] = KeyOf[r] /\ KeyOf[r] # NoKey
      => Payload[q] = Payload[r]

\* Capacity stays set aside for a create as long as it waits for the agent, and
\* no longer, but when the store write that should give it back throws.
ReservationsAccounted ==
    \A r \in Request :
      /\ create[r] = "creating" => reserved[r]
      /\ reserved[r] => create[r] \in {"creating", "unreleased"}

\* With one listener process and a store that can be written, the event log and
\* the record of a session agree whenever no handler is between two writes.
EventLogAgrees ==
    (\A p \in {"public", "internal"} : Idle(p)) =>
      \A r \in Request : session[r] # "none" => lastEvent[r] = session[r]

\* A VM whose create failed or timed out does not stay for ever, although no
\* record of it was written and so nobody can delete it.
OrphansEnd ==
    \A r \in Request :
      (create[r] \in {"failed", "unreleased"} /\ vm[r] \in {"starting", "up"})
        ~> vm[r] \in {"refused", "over"}

\* A session that was terminated is never reported running again
\* (docs/BENCHMARKS.md: "Releases return after the session is logically
\* terminated; node-agent teardown runs asynchronously").
TerminatedIsFinal ==
    [][ \A r \in Request : session[r] = "terminated" => session'[r] # "running" ]_vars
=============================================================================
