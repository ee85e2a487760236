--------------------------- MODULE CreateDeadlines ----------------------------
(***************************************************************************)
(* The time-outs a create passes through: the hold the control plane puts  *)
(* on the chosen host (src/api/server.ts), the call to its agent with the  *)
(* resends of src/api/client.ts, and the launch the agent makes of each    *)
(* request it gets, up to a warm VM that answers or a restore whose stages *)
(* share a deadline (src/node-agent/firecracker.ts).                       *)
(*                                                                         *)
(* now counts from the moment the host is held.  A step takes no time; a   *)
(* stage lasts until it is left, at `until` at the latest.                 *)
(***************************************************************************)
EXTENDS Naturals

CONSTANTS
    RemoteTimeout,   \* CONTROL_PLANE_REMOTE_CREATE_TIMEOUT_MS
    Resends,         \* CONTROL_PLANE_REMOTE_CREATE_RETRIES
    RestoreTimeout,  \* FIRECRACKER_RESTORE_TIMEOUT_MS
    RestoreRetries,  \* FIRECRACKER_RESTORE_RETRIES
    ClaimTimeout,    \* FIRECRACKER_WARM_CLAIM_TIMEOUT_MS
    Overhead,        \* 10_000: what an attempt may add to its time-out
    Grace,           \* 5_000: what the hold adds to the call's time-out
    LockWait,        \* longest wait for the store's lock that is not given up
    ProbeTime,       \* of the egress probes of a slot that is claimed
    SocketWait,      \* 10_000: for the API socket of a VM
    LoadTime,        \* of the requests to a VM, which have no time-out
    StageTimeout,    \* 10_000: of a stage of the readiness checks
    DestroyTime,     \* of a VM
    Horizon          \* last moment looked at (a bound)

ASSUME DeadlineAssumption ==
    /\ {RemoteTimeout, Resends, RestoreTimeout, RestoreRetries, ClaimTimeout,
        Overhead, Grace, LockWait, ProbeTime, SocketWait, LoadTime, StageTimeout,
        DestroyTime, Horizon} \subseteq Nat
    /\ ProbeTime + SocketWait + LoadTime <= RestoreTimeout
    /\ DestroyTime <= Overhead
    /\ LockWait < Grace

VARIABLES now,
          call,    \* of the control plane: state, resends made, its time-out
          launch   \* launch[n]: the agent's launch for request n of the call

deadlineVars == <<now, call, launch>>

Least(a, b) == IF a <= b THEN a ELSE b
Most(a, b) == IF a >= b THEN a ELSE b

RestoreAttempts == 1 + RestoreRetries

\* A fault: an attempt is given its time-out and nothing to clean up in.
AttemptBudgetBare == RestoreTimeout

AttemptBudget == RestoreTimeout + Overhead

\* resolveRemoteCreateTimeoutMs, for a host of microVMs
CreateTimeout == Most(RemoteTimeout, RestoreAttempts * AttemptBudget + Overhead)

\* HOST_CREATE_RESERVATION_TTL_MS, which is written out again in server.ts.
HoldTime == Most(RemoteTimeout + Grace,
                 RestoreAttempts * (RestoreTimeout + Overhead) + Overhead + Grace)

Request == 0..Resends

Restoring == {"claim", "boot", "load", "upgrade", "version", "targets", "stable",
              "destroy"}
Timed == Restoring \cup {"warm", "evict"}
Stages == Timed \cup {"unsent", "queued", "done", "failed"}

DeadlineTypeOK ==
    /\ now \in Nat
    /\ call \in [state : {"calling", "commit", "made", "lost", "timeout", "error"},
                 sent : Request, until : Nat]
    /\ launch \in [Request -> [stage : Stages, attempt : 0..RestoreAttempts,
                               began : Nat, deadline : Nat, until : Nat,
                               again : BOOLEAN]]

Idle(stage) == [stage |-> stage, attempt |-> 0, began |-> 0, deadline |-> 0,
                until |-> 0, again |-> FALSE]

DeadlineInit ==
    /\ now = 0
    /\ call = [state |-> "calling", sent |-> 0, until |-> CreateTimeout]
    /\ launch = [n \in Request |-> Idle("unsent")]

-------------------------------------------------------------------------------
(* createRemoteSession                                                     *)

\* The request reaches the agent.
Arrives ==
    /\ call.state = "calling"
    /\ launch[call.sent].stage = "unsent"
    /\ launch' = [launch EXCEPT ![call.sent] = Idle("queued")]
    /\ UNCHANGED <<now, call>>

\* A fault: every request gets a time-out of its own.
ResendAfresh ==
    /\ call.sent < Resends
    /\ call' = [call EXCEPT !.sent = @ + 1, !.until = now + CreateTimeout]

\* fetchWithTransientRetry waits 0.1 or 0.25 s, and the signal goes on.
Resend == /\ call.sent < Resends
          /\ call' = [call EXCEPT !.sent = @ + 1]

\* The connection is refused or lost, the request perhaps delivered; the agent
\* does not notice.  After the last resend, and for an error that is not
\* transient, the call fails.
ConnectionFails ==
    /\ call.state = "calling"
    /\ Resend \/ call' = [call EXCEPT !.state = "error"]
    /\ UNCHANGED <<now, launch>>

\* The signal aborts the request or the wait between two.
Abort ==
    /\ call.state = "calling"
    /\ now = call.until
    /\ call' = [call EXCEPT !.state = "timeout"]
    /\ UNCHANGED <<now, launch>>

Answered ==
    /\ call.state = "calling"
    /\ \/ /\ launch[call.sent].stage = "done"
          /\ call' = [call EXCEPT !.state = "commit", !.until = now + LockWait]
       \/ /\ launch[call.sent].stage = "failed"
          /\ call' = [call EXCEPT !.state = "error"]
    /\ UNCHANGED <<now, launch>>

\* The commit that takes the place of the hold, or gives up on the lock.
Commit ==
    /\ call.state = "commit"
    /\ \/ call' = [call EXCEPT !.state = "made"]
       \/ now = call.until /\ call' = [call EXCEPT !.state = "lost"]
    /\ UNCHANGED <<now, launch>>

-------------------------------------------------------------------------------
(* NodeAgent.launchSession and restoreSession                              *)

Enter(n, stage, time) ==
    launch' = [launch EXCEPT ![n] = [@ EXCEPT !.stage = stage, !.until = now + time]]

Settle(n, stage) == launch' = [launch EXCEPT ![n] = Idle(stage)]

\* A warm VM is verified: three probes, each with the whole time-out.
ClaimWarm(n) ==
    /\ launch[n].stage = "queued"
    /\ Enter(n, "warm", 3 * Least(RestoreTimeout, ClaimTimeout))

\* A VM that does not pass is destroyed, and the next one or a restore tried.
WarmEnds(n) == /\ launch[n].stage = "warm"
               /\ Settle(n, "done") \/ Enter(n, "evict", DestroyTime)

Evicted(n) == launch[n].stage = "evict" /\ Settle(n, "queued")

\* An attempt: its deadline runs before a slot is claimed.
Attempt(n, k, start) ==
    launch' = [launch EXCEPT ![n] =
        [stage |-> "claim", attempt |-> k, began |-> start,
         deadline |-> now + RestoreTimeout, until |-> now + ProbeTime,
         again |-> FALSE]]

\* The gates and the building of a snapshot have no time-out.
RestoreBegins(n) == launch[n].stage = "queued" /\ Attempt(n, 1, now)

\* The launch is refused before that.
Refused(n) == launch[n].stage = "queued" /\ Settle(n, "failed")

Claimed(n) == launch[n].stage = "claim" /\ Enter(n, "boot", SocketWait)

SocketThere(n) == launch[n].stage = "boot" /\ Enter(n, "load", LoadTime)

\* Errors up to here are thrown past the loop of attempts.
SpawnFails(n) == /\ launch[n].stage \in {"claim", "boot", "load"}
                 /\ Settle(n, "failed")

\* cdpPhaseTimeoutMs: what is left of the attempt, at most 10 s.
Left(n) == Least(Most(launch[n].deadline, now) - now, StageTimeout)

Loaded(n) == launch[n].stage = "load" /\ Enter(n, "upgrade", Left(n))

\* The first upgrade may fail: the path is then asked for.
ReadyNext(n) == \/ launch[n].stage = "upgrade" /\ Enter(n, "version", Left(n))
                \/ launch[n].stage = "version" /\ Enter(n, "targets", Left(n))
                \/ launch[n].stage = "targets" /\ Enter(n, "stable", Left(n))

\* All three checks once more, before the session is handed over.
StableReady(n) == launch[n].stage = "stable" /\ Settle(n, "done")

\* The attempt fails; the VM is destroyed before the error is looked at.
Undo(n, retry) ==
    launch' = [launch EXCEPT ![n] = [@ EXCEPT !.stage = "destroy",
                                              !.until = now + DestroyTime,
                                              !.again = retry]]

\* Its policy cannot be applied.
PolicyFails(n) == launch[n].stage = "upgrade" /\ Undo(n, FALSE)

\* shouldRetryFirecrackerRestoreError does not know the error of a list in
\* which there is no page.
StageTimesOut(n) ==
    /\ launch[n].stage \in {"version", "targets", "stable"}
    /\ now = launch[n].until
    /\ \/ Undo(n, TRUE)
       \/ launch[n].stage # "version" /\ Undo(n, FALSE)

DestroyDone(n) ==
    /\ launch[n].stage = "destroy"
    /\ IF launch[n].again /\ launch[n].attempt < RestoreAttempts
          THEN Attempt(n, launch[n].attempt + 1, launch[n].began)
          ELSE Settle(n, "failed")

LaunchStep(n) ==
    /\ \/ ClaimWarm(n) \/ WarmEnds(n) \/ Evicted(n)
       \/ RestoreBegins(n) \/ Refused(n)
       \/ Claimed(n) \/ SocketThere(n) \/ SpawnFails(n) \/ Loaded(n)
       \/ ReadyNext(n) \/ StableReady(n)
       \/ PolicyFails(n) \/ StageTimesOut(n) \/ DestroyDone(n)
    /\ UNCHANGED <<now, call>>

Tick == /\ now < Horizon
        /\ call.state \in {"calling", "commit"} => now < call.until
        /\ \A n \in Request : launch[n].stage \in Timed => now < launch[n].until
        /\ now' = now + 1
        /\ UNCHANGED <<call, launch>>

DeadlineNext ==
    \/ Arrives \/ ConnectionFails \/ Abort \/ Answered \/ Commit \/ Tick
    \/ \E n \in Request : LaunchStep(n)

DeadlineSpec == DeadlineInit /\ [][DeadlineNext]_deadlineVars

-------------------------------------------------------------------------------
\* The control plane does not give up on a launch that is restoring, whatever
\* its attempts and stages take, unless the launch came to its first attempt
\* later than the 10 s that are left for what precedes it ("Keep the
\* control-plane timeout above that full host-side budget", client.ts).
ClientOutlastsRestores ==
    call.state = "timeout" =>
        \A n \in Request : launch[n].stage \in Restoring => launch[n].began >= Overhead

\* While a create is on its way, its resends and its commit included, the hold
\* on its host has not expired: no other create is given its place.
HoldOutlastsCreate == call.state \in {"calling", "commit"} => now < HoldTime
=============================================================================
