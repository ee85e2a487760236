----------------------- MODULE ControlPlaneStore_proofs -----------------------
(***************************************************************************)
(* Proofs about ControlPlaneStore, for any set of processes, any contents, *)
(* any operations and any lock time-out.                                   *)
(***************************************************************************)
EXTENDS ControlPlaneStore, TLAPS

\* A process that is in a call was asked for an operation.
CallIsOp == \A p \in Proc :
              pc[p] \in Critical \cup {"locking"} => call[p] \in Op

\* The inductive invariant.  Mutual exclusion makes the copy of the process in
\* its critical section the latest; CallIsOp keeps its mutation defined.
Inv == TypeOK /\ CallIsOp /\ MutualExclusion /\ CopyIsLatest

USE DEF Quiet, Locked, Critical, PC

LEMMA OnDiskType == ASSUME TypeOK PROVE OnDisk \in Content
  BY ContentAssumption DEF TypeOK, OnDisk

LEMMA EffectType ==
  ASSUME NEW o \in Op, NEW c \in Content PROVE Effect[o][c] \in Content
  BY ContentAssumption

\* The store starts in the invariant (store.ts: the constructor).
LEMMA InitInv == Init => Inv
  <1> SUFFICES ASSUME Init PROVE Inv
    OBVIOUS
  <1>1. TypeOK
    <2>1. 0 \in 0..MaxTries
      BY TriesAssumption
    <2>2. lock \in BOOLEAN /\ disk \in Content \cup {NoFile}
      BY DEF Init
    <2>3. mem \in [Proc -> Content] /\ loaded \in [Proc -> BOOLEAN]
      BY ContentAssumption DEF Init
    <2>4. call \in [Proc -> Op \cup {NoOp}] /\ tries \in [Proc -> 0..MaxTries]
      BY <2>1 DEF Init
    <2>5. pc \in [Proc -> PC]
      BY DEF Init
    <2> QED BY <2>2, <2>3, <2>4, <2>5 DEF TypeOK
  <1>2. \A p \in Proc : pc[p] = "idle"
    BY DEF Init
  <1>3. CallIsOp /\ MutualExclusion /\ CopyIsLatest
    BY <1>2 DEF CallIsOp, MutualExclusion, CopyIsLatest, InCritical
  <1> QED BY <1>1, <1>3 DEF Inv

\* One step of #withWriteLock preserves the invariant.
LEMMA LockStepInv == ASSUME NEW p \in Proc, Inv, WithWriteLock(p) PROVE Inv'
  <1> USE DEF Goto
  <1>1. TypeOK'
    <2>1. CASE Acquire(p) \/ TimeOut(p) \/ OpenThrows(p) \/ WriteTemp(p)
                 \/ IOThrows(p) \/ Unlock(p)
      <3>1. \E l \in PC : pc' = [pc EXCEPT ![p] = l]
        BY <2>1 DEF Acquire, TimeOut, OpenThrows, WriteTemp, IOThrows, Unlock
      <3>2. pc' \in [Proc -> PC]
        BY <3>1 DEF Inv, TypeOK
      <3>3. lock' \in BOOLEAN
        BY <2>1 DEF Inv, TypeOK, Acquire, TimeOut, OpenThrows, WriteTemp,
           IOThrows, Unlock
      <3>4. UNCHANGED <<disk, mem, loaded, call, tries>>
        BY <2>1 DEF Acquire, TimeOut, OpenThrows, WriteTemp, IOThrows, Unlock
      <3> QED BY <3>2, <3>3, <3>4 DEF Inv, TypeOK
    <2>5. CASE WaitForLock(p)
      <3>1. tries[p] + 1 \in 0..MaxTries
        BY <2>5, TriesAssumption DEF Inv, TypeOK, WaitForLock
      <3>2. tries' \in [Proc -> 0..MaxTries]
        BY <2>5, <3>1 DEF Inv, TypeOK, WaitForLock
      <3> QED BY <2>5, <3>2 DEF Inv, TypeOK, WaitForLock
    <2>2. CASE Reload(p)
      BY <2>2, OnDiskType DEF Inv, TypeOK, Reload
    <2>3. CASE Mutate(p) \/ MutateThrows(p)
      <3>1. call[p] \in Op /\ mem[p] \in Content
        BY <2>3 DEF Inv, TypeOK, CallIsOp, Mutate, MutateThrows
      <3>2. Effect[call[p]][mem[p]] \in Content
        BY <3>1, EffectType
      <3> QED BY <2>3, <3>1, <3>2 DEF Inv, TypeOK, Mutate, MutateThrows
    <2>4. CASE Rename(p)
      BY <2>4 DEF Inv, TypeOK, Rename
    <2> QED BY <2>1, <2>2, <2>3, <2>4, <2>5 DEF WithWriteLock
  <1>2. CallIsOp'
    BY DEF Inv, TypeOK, CallIsOp, WithWriteLock, Acquire, WaitForLock, TimeOut,
       OpenThrows, Reload, Mutate, MutateThrows, WriteTemp, Rename, IOThrows, Unlock,
       InCritical
  <1>3. MutualExclusion'
    BY DEF Inv, TypeOK, MutualExclusion, WithWriteLock, Acquire, WaitForLock,
       TimeOut, OpenThrows, Reload, Mutate, MutateThrows, WriteTemp, Rename, IOThrows,
       Unlock, InCritical
  <1>4. CopyIsLatest'
    <2>1. CASE Rename(p)
      <3>1. \A q \in Proc : q # p => pc[q] \notin Critical
        BY <2>1 DEF Inv, MutualExclusion, InCritical, Rename
      <3> QED BY <2>1, <3>1 DEF Inv, TypeOK, CopyIsLatest, Rename
    <2>2. CASE ~Rename(p)
      <3>1. disk' = disk
        BY <2>2 DEF WithWriteLock, Acquire, WaitForLock, TimeOut, OpenThrows, Reload, Mutate,
           MutateThrows, WriteTemp, IOThrows, Unlock
      <3>2. OnDisk' = OnDisk
        BY <3>1 DEF OnDisk
      <3> QED BY <2>2, <3>2 DEF Inv, TypeOK, CopyIsLatest, WithWriteLock,
           Acquire, WaitForLock, TimeOut, OpenThrows, Reload, Mutate, MutateThrows,
           WriteTemp, IOThrows, Unlock, InCritical
    <2> QED BY <2>1, <2>2
  <1> QED BY <1>1, <1>2, <1>3, <1>4 DEF Inv

\* So does every other step of a process: a call that begins, a read, the
\* process dying and starting again.
LEMMA OtherStepInv ==
  ASSUME NEW p \in Proc, Inv,
         (\E o \in Op : Invoke(p, o)) \/ Read(p) \/ Crash(p) \/ Restart(p)
  PROVE  Inv'
  <1> USE DEF Goto
  <1>0. OnDisk \in Content /\ OnDisk' = OnDisk
    BY OnDiskType DEF Inv, OnDisk, Invoke, Read, Crash, Restart
  <1>1. CASE \E o \in Op : Invoke(p, o)
    BY <1>0, <1>1, TriesAssumption DEF Inv, TypeOK, CallIsOp, MutualExclusion, CopyIsLatest,
       InCritical, Invoke
  <1>2. CASE Read(p)
    BY <1>0, <1>2 DEF Inv, TypeOK, CallIsOp, MutualExclusion, CopyIsLatest,
       InCritical, Read, Refreshed
  <1>3. CASE Crash(p)
    BY <1>0, <1>3 DEF Inv, TypeOK, CallIsOp, MutualExclusion, CopyIsLatest,
       InCritical, Crash
  <1>4. CASE Restart(p)
    BY <1>0, <1>4 DEF Inv, TypeOK, CallIsOp, MutualExclusion, CopyIsLatest,
       InCritical, Restart
  <1> QED BY <1>1, <1>2, <1>3, <1>4

LEMMA NextInv == Inv /\ [Next]_vars => Inv'
  <1> SUFFICES ASSUME Inv, [Next]_vars PROVE Inv'
    OBVIOUS
  <1>1. CASE Next
    BY <1>1, LockStepInv, OtherStepInv DEF Next
  <1>2. CASE UNCHANGED vars
    BY <1>2 DEF vars, Inv, TypeOK, CallIsOp, MutualExclusion, CopyIsLatest,
       InCritical, OnDisk
  <1> QED BY <1>1, <1>2

\* The invariant holds of every reachable state of the store.
THEOREM Invariance == Spec => []Inv
  BY InitInv, NextInv, PTL DEF Spec

\* Every variable keeps its type (the fields of ControlPlaneStore).
THEOREM Typed == Spec => []TypeOK
  BY Invariance, PTL DEF Inv

\* The lock file excludes: one process at most is between openSync and rmSync.
THEOREM Exclusive == Spec => []MutualExclusion
  BY Invariance, PTL DEF Inv

\* What a process persists is the latest contents with its own mutation.
THEOREM NoLostUpdate == Spec => []CopyIsLatest
  BY Invariance, PTL DEF Inv

(***************************************************************************)
(* The lock file left behind                                               *)
(***************************************************************************)
\* A call that is still running is on its way to the finally block: only the
\* death of a process in its critical section orphans the lock file.
THEOREM OrphansComeFromCrashes == Spec => OrphanedOnlyByCrash
  <1> DEFINE A == ~Orphaned /\ Orphaned' =>
                    \E p \in Proc : InCritical(p) /\ pc'[p] = "dead"
  <1>1. ASSUME Inv, Next PROVE A
    <2> SUFFICES ASSUME ~Orphaned, Orphaned'
                 PROVE  \E p \in Proc : InCritical(p) /\ pc'[p] = "dead"
      OBVIOUS
    <2>1. lock' /\ \A q \in Proc : pc'[q] \notin Critical
      BY DEF Orphaned, InCritical
    <2>2. PICK p \in Proc : \/ \E o \in Op : Invoke(p, o)
                            \/ WithWriteLock(p)
                            \/ Read(p) \/ Crash(p) \/ Restart(p)
      BY <1>1 DEF Next
    <2>3. ~Acquire(p) /\ ~Unlock(p)
      BY <1>1, <2>1 DEF Inv, TypeOK, Acquire, Unlock, Goto
    <2>4. lock
      BY <2>1, <2>2, <2>3 DEF WithWriteLock, Invoke, WaitForLock, TimeOut,
         OpenThrows, Reload, Mutate, MutateThrows, WriteTemp, Rename, IOThrows,
         Read, Crash, Restart
    <2>5. PICK q \in Proc : InCritical(q)
      BY <2>4 DEF Orphaned
    <2>6. pc'[q] = "dead"
      BY <1>1, <2>1, <2>2, <2>3, <2>5 DEF Inv, TypeOK, InCritical,
         WithWriteLock, Goto, Invoke, WaitForLock, TimeOut, OpenThrows, Reload,
         Mutate, MutateThrows, WriteTemp, Rename, IOThrows, Read, Crash, Restart
    <2> QED BY <2>5, <2>6
  <1>2. Inv /\ [Next]_vars => [A]_vars
    BY <1>1
  <1> QED BY <1>2, Invariance, PTL DEF Spec, OrphanedOnlyByCrash

\* No time-out, retry or restart removes a lock file left behind, so the
\* state file keeps its contents from then on.
THEOREM OrphansAreForever == Spec => OrphanFreezesState
  <1> DEFINE A == Orphaned => Orphaned' /\ disk' = disk
  <1>1. ASSUME Inv, Next PROVE A
    <2> SUFFICES ASSUME Orphaned PROVE Orphaned' /\ disk' = disk
      OBVIOUS
    <2>1. lock /\ \A q \in Proc : pc[q] \notin Critical
      BY DEF Orphaned, InCritical
    <2>2. PICK p \in Proc : \/ \E o \in Op : Invoke(p, o)
                            \/ WithWriteLock(p)
                            \/ Read(p) \/ Crash(p) \/ Restart(p)
      BY <1>1 DEF Next
    <2>3. \/ \E o \in Op : Invoke(p, o)
          \/ WaitForLock(p) \/ TimeOut(p) \/ OpenThrows(p)
          \/ Read(p) \/ Crash(p) \/ Restart(p)
      BY <2>1, <2>2 DEF WithWriteLock, Acquire, Reload, Mutate, MutateThrows,
         WriteTemp, Rename, IOThrows, Unlock, InCritical
    <2>4. UNCHANGED <<lock, disk>>
      BY <2>3 DEF Invoke, WaitForLock, TimeOut, OpenThrows, Read, Crash, Restart
    <2>5. \A q \in Proc : pc'[q] \notin Critical
      BY <1>1, <2>1, <2>3 DEF Inv, TypeOK, Goto, Invoke, WaitForLock, TimeOut,
         OpenThrows, Read, Crash, Restart
    <2> QED BY <2>1, <2>4, <2>5 DEF Orphaned, InCritical
  <1>2. Inv /\ [Next]_vars => [A]_vars
    BY <1>1
  <1> QED BY <1>2, Invariance, PTL DEF Spec, OrphanFreezesState

(***************************************************************************)
(* Refinement                                                              *)
(***************************************************************************)
LEMMA InitRefines == Init => Atomic!Init
  <1> SUFFICES ASSUME Init PROVE Atomic!Init
    OBVIOUS
  <1>1. OnDisk = Empty
    BY DEF Init, OnDisk
  <1>2. [p \in Proc |-> Progress(pc[p])] = [p \in Proc |-> "idle"]
    BY DEF Init, Progress
  <1> QED BY <1>1, <1>2 DEF Init, Atomic!Init

\* What a step that moves one process along does to the abstract outcome.
LEMMA OutcomeStep ==
  ASSUME NEW p \in Proc, NEW l \in PC, TypeOK, Goto(p, l)
  PROVE  [q \in Proc |-> Progress(pc'[q])]
           = [[q \in Proc |-> Progress(pc[q])] EXCEPT ![p] = Progress(l)]
  BY DEF TypeOK, Goto

\* Each step of a process is a step of the atomic store or leaves it alone.
LEMMA StepRefines ==
  ASSUME Inv, [Next]_vars PROVE [Atomic!Next]_(Atomic!vars)
  <1> DEFINE outcome == [q \in Proc |-> Progress(pc[q])]
  <1> USE DEF Progress
  <1>1. ASSUME NEW p \in Proc, NEW o \in Op, Invoke(p, o) PROVE Atomic!Next
    <2>0. pc[p] \in Quiet /\ outcome[p] = pc[p]
      BY <1>1 DEF Invoke
    <2>1. outcome' = [outcome EXCEPT ![p] = "pending"] /\ outcome[p] \in Quiet
      <3>1. Goto(p, "locking") /\ "locking" \in PC
        BY <1>1 DEF Invoke
      <3>2. outcome' = [outcome EXCEPT ![p] = Progress("locking")]
        BY <3>1, OutcomeStep DEF Inv
      <3> QED BY <2>0, <3>2
    <2> QED BY <1>1, <2>1 DEF Invoke, OnDisk, Atomic!Next, Atomic!Invoke,
               Atomic!Become, Atomic!Quiet
  <1>2. ASSUME NEW p \in Proc, Rename(p) PROVE Atomic!Next
    <2>1. outcome' = [outcome EXCEPT ![p] = "applied"] /\ outcome[p] = "pending"
      BY <1>2, OutcomeStep DEF Inv, Rename
    <2>2. OnDisk' = mem[p]
      BY <1>2, ContentAssumption DEF Inv, TypeOK, Rename, OnDisk
    <2>3. mem[p] = Effect[call[p]][OnDisk]
      BY <1>2 DEF Inv, CopyIsLatest, Rename
    <2>4. call' = call
      BY <1>2 DEF Rename
    <2> QED BY <2>1, <2>2, <2>3, <2>4 DEF Atomic!Next, Atomic!Apply, Atomic!Become
  <1>3. ASSUME NEW p \in Proc, TimeOut(p) \/ OpenThrows(p) \/ Unlock(p)
        PROVE  Atomic!Next
    <2>1. UNCHANGED <<OnDisk, call>>
      BY <1>3 DEF TimeOut, OpenThrows, Unlock, OnDisk
    <2>2. CASE pc[p] = "renamed"
      <3>1. outcome' = [outcome EXCEPT ![p] = "ok"] /\ outcome[p] = "applied"
        BY <1>3, <2>2, OutcomeStep DEF Inv, TimeOut, OpenThrows, Unlock
      <3> QED BY <2>1, <3>1 DEF Atomic!Next, Atomic!Return, Atomic!Become
    <2>3. CASE pc[p] # "renamed"
      <3>1. outcome' = [outcome EXCEPT ![p] = "failed"] /\ outcome[p] = "pending"
        BY <1>3, <2>3, OutcomeStep DEF Inv, TimeOut, OpenThrows, Unlock, InCritical
      <3> QED BY <2>1, <3>1 DEF Atomic!Next, Atomic!Fail, Atomic!Become
    <2> QED BY <2>2, <2>3
  <1>4. ASSUME NEW p \in Proc, Crash(p) PROVE Atomic!Next
    <2>1. outcome' = [outcome EXCEPT ![p] = "dead"] /\ outcome[p] # "dead"
      BY <1>4, OutcomeStep DEF Inv, TypeOK, Crash
    <2> QED BY <1>4, <2>1 DEF Crash, OnDisk, Atomic!Next, Atomic!Crash, Atomic!Become
  <1>5. ASSUME NEW p \in Proc, Restart(p) PROVE Atomic!Next
    <2>1. outcome' = [outcome EXCEPT ![p] = "idle"] /\ outcome[p] = "dead"
      BY <1>5, OutcomeStep DEF Inv, Restart
    <2> QED BY <1>5, <2>1 DEF Restart, OnDisk, Atomic!Next, Atomic!Restart, Atomic!Become
  <1>6. ASSUME NEW p \in Proc,
               Acquire(p) \/ WaitForLock(p) \/ Reload(p) \/ Mutate(p)
                 \/ MutateThrows(p) \/ WriteTemp(p) \/ IOThrows(p) \/ Read(p)
        PROVE  UNCHANGED Atomic!vars
    <2>1. UNCHANGED <<OnDisk, call>>
      BY <1>6 DEF Acquire, WaitForLock, Reload, Mutate, MutateThrows, WriteTemp,
         IOThrows, Read, OnDisk
    <2>2. \A q \in Proc : Progress(pc'[q]) = Progress(pc[q])
      BY <1>6 DEF Inv, TypeOK, Goto, Acquire, WaitForLock, Reload, Mutate,
         MutateThrows, WriteTemp, IOThrows, Read
    <2>3. outcome' = outcome
      BY <2>2
    <2> QED BY <2>1, <2>3 DEF Atomic!vars
  <1>7. CASE UNCHANGED vars
    BY <1>7 DEF vars, OnDisk, Atomic!vars
  <1>8. CASE Next
    BY <1>8, <1>1, <1>2, <1>3, <1>4, <1>5, <1>6 DEF Next, WithWriteLock
  <1> QED BY <1>7, <1>8

\* The file-locked store is an atomic store: each write call takes effect once,
\* on the latest contents, at the rename, or not at all.
THEOREM Refinement == Spec => ImplementsAtomicStore
  BY InitRefines, StepRefines, Invariance, PTL
     DEF Spec, ImplementsAtomicStore, Atomic!Spec
=============================================================================
