---------------------------- MODULE AtomicStore ----------------------------
(***************************************************************************)
(* What the control-plane store promises its callers (ControlPlaneStore in *)
(* src/api/store.ts, used by every listener process that shares one state  *)
(* file): a write call takes effect once, at one instant, on the latest    *)
(* contents; a call that throws has no effect on the contents; a process   *)
(* that dies in a call leaves it applied or not, never half applied.       *)
(***************************************************************************)
CONSTANTS Proc,      \* listener processes
          Op,        \* write operations a caller can ask for
          Content,   \* contents of the state file
          Empty,     \* emptyState()
          Effect,    \* Effect[o][c]: contents c after operation o
          NoOp       \* "no call yet"
\* ControlPlaneStore, which instantiates them, assumes their types.

VARIABLES db,        \* the committed contents
          call,      \* call[p]: the operation p last asked for
          outcome    \* outcome[p]: how far that call is

vars == <<db, call, outcome>>

\* A process may start a call when it has none in progress.
Quiet == {"idle", "ok", "failed"}
Outcome == Quiet \cup {"pending", "applied", "dead"}

TypeOK == /\ db \in Content
          /\ call \in [Proc -> Op \cup {NoOp}]
          /\ outcome \in [Proc -> Outcome]

Init == /\ db = Empty
        /\ call = [p \in Proc |-> NoOp]
        /\ outcome = [p \in Proc |-> "idle"]

Become(p, o) == outcome' = [outcome EXCEPT ![p] = o]

Invoke(p, o) == /\ outcome[p] \in Quiet
                /\ call' = [call EXCEPT ![p] = o]
                /\ Become(p, "pending")
                /\ UNCHANGED db

Apply(p) == /\ outcome[p] = "pending"
            /\ db' = Effect[call[p]][db]
            /\ Become(p, "applied")
            /\ UNCHANGED call

Return(p) == /\ outcome[p] = "applied"
             /\ Become(p, "ok")
             /\ UNCHANGED <<db, call>>

Fail(p) == /\ outcome[p] = "pending"
           /\ Become(p, "failed")
           /\ UNCHANGED <<db, call>>

Crash(p) == /\ outcome[p] # "dead"
            /\ Become(p, "dead")
            /\ UNCHANGED <<db, call>>

Restart(p) == /\ outcome[p] = "dead"
              /\ Become(p, "idle")
              /\ UNCHANGED <<db, call>>

Next == \E p \in Proc :
          \/ \E o \in Op : Invoke(p, o)
          \/ Apply(p) \/ Return(p) \/ Fail(p) \/ Crash(p) \/ Restart(p)

Spec == Init /\ [][Next]_vars
=============================================================================
