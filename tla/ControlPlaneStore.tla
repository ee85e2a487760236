------------------------- MODULE ControlPlaneStore -------------------------
(***************************************************************************)
(* The file-backed control-plane store (src/api/store.ts).  Every listener *)
(* process holds its own ControlPlaneStore object over one shared state    *)
(* file.  A write runs #withWriteLock: create <state>.lock with O_EXCL,    *)
(* waiting STORE_LOCK_WAIT_MS between tries and giving up after            *)
(* STORE_LOCK_TIMEOUT_MS; reload the file; mutate the copy in memory;      *)
(* write a temporary file; rename it over the state file; remove the lock  *)
(* in the finally block.  A read takes no lock.                            *)
(*                                                                         *)
(* The whole call is synchronous (the wait is Atomics.wait), so a process  *)
(* has one call in progress; the interleavings are those of processes.     *)
(***************************************************************************)
EXTENDS Naturals

CONSTANTS Proc, Op, Content, Empty, Effect, NoOp,  \* as in AtomicStore
          NoFile,    \* the state file has never been written
          MaxTries   \* tries that fit in STORE_LOCK_TIMEOUT_MS

ASSUME ContentAssumption ==
    /\ Empty \in Content
    /\ NoFile \notin Content
    /\ Effect \in [Op -> [Content -> Content]]
    /\ NoOp \notin Op

ASSUME TriesAssumption == MaxTries \in Nat

VARIABLES disk,     \* contents of the state file, or NoFile
          lock,     \* does the lock file exist?  it does not name its owner
          mem,      \* mem[p]: #state, the copy in p's memory
          loaded,   \* loaded[p]: #lastLoadedMtimeMs # -1
          call,     \* call[p]: the mutation p was last asked to make
          tries,    \* tries[p]: failed attempts to create the lock file
          pc        \* pc[p]: where p is in #withWriteLock

vars == <<disk, lock, mem, loaded, call, tries, pc>>

Quiet == {"idle", "ok", "failed"}
Locked == {"locked", "loaded", "mutated", "written"}   \* not yet persisted
Critical == Locked \cup {"renamed", "aborting"}        \* the finally is ahead
PC == Quiet \cup Critical \cup {"locking", "dead"}

\* What a process that reads the file now finds in it.
OnDisk == IF disk = NoFile THEN Empty ELSE disk

InCritical(p) == pc[p] \in Critical

TypeOK == /\ disk \in Content \cup {NoFile}
          /\ lock \in BOOLEAN
          /\ mem \in [Proc -> Content]
          /\ loaded \in [Proc -> BOOLEAN]
          /\ call \in [Proc -> Op \cup {NoOp}]
          /\ tries \in [Proc -> 0..MaxTries]
          /\ pc \in [Proc -> PC]

Init == /\ disk = NoFile
        /\ lock = FALSE
        /\ mem = [p \in Proc |-> Empty]
        /\ loaded = [p \in Proc |-> FALSE]
        /\ call = [p \in Proc |-> NoOp]
        /\ tries = [p \in Proc |-> 0]
        /\ pc = [p \in Proc |-> "idle"]

Goto(p, l) == pc' = [pc EXCEPT ![p] = l]

(***************************************************************************)
(* #withWriteLock, step by step                                            *)
(***************************************************************************)
Invoke(p, o) == /\ pc[p] \in Quiet
                /\ call' = [call EXCEPT ![p] = o]
                /\ tries' = [tries EXCEPT ![p] = 0]
                /\ Goto(p, "locking")
                /\ UNCHANGED <<disk, lock, mem, loaded>>

\* openSync(lockPath, "wx") succeeds.
Acquire(p) == /\ pc[p] = "locking"
              /\ ~lock
              /\ lock' = TRUE
              /\ Goto(p, "locked")
              /\ UNCHANGED <<disk, mem, loaded, call, tries>>

\* A fault: the time already waited is not compared with the deadline.
WaitOn(p) == /\ pc[p] = "locking"
             /\ lock
             /\ tries' = [tries EXCEPT ![p] = @ + 1]
             /\ UNCHANGED <<disk, lock, mem, loaded, call, pc>>

\* EEXIST before the deadline: sleepMs(STORE_LOCK_WAIT_MS), then try again.
WaitForLock(p) == /\ pc[p] = "locking"
                  /\ lock
                  /\ tries[p] < MaxTries
                  /\ tries' = [tries EXCEPT ![p] = @ + 1]
                  /\ UNCHANGED <<disk, lock, mem, loaded, call, pc>>

\* A fault: a writer that gives up takes the lock file for stale and removes it.
BreakLock(p) == /\ pc[p] = "locking"
                /\ lock
                /\ tries[p] = MaxTries
                /\ lock' = FALSE
                /\ Goto(p, "failed")
                /\ UNCHANGED <<disk, mem, loaded, call, tries>>

\* A fault: no deadline, so the loop goes on as long as the lock file is there.
NeverTimeOut(p) == /\ pc[p] = "locking"
                   /\ lock
                   /\ tries[p] = MaxTries
                   /\ tries' = [tries EXCEPT ![p] = 0]
                   /\ UNCHANGED <<disk, lock, mem, loaded, call, pc>>

\* EEXIST at the deadline: throw, with the lock file left alone.
TimeOut(p) == /\ pc[p] = "locking"
              /\ lock
              /\ tries[p] = MaxTries
              /\ Goto(p, "failed")
              /\ UNCHANGED <<disk, lock, mem, loaded, call, tries>>

\* openSync throws anything but EEXIST: rethrown, nothing was acquired.
OpenThrows(p) == /\ pc[p] = "locking"
                 /\ Goto(p, "failed")
                 /\ UNCHANGED <<disk, lock, mem, loaded, call, tries>>

\* A fault: the mutation runs on the copy the process already had.
KeepCopy(p) == /\ pc[p] = "locked"
               /\ Goto(p, "loaded")
               /\ UNCHANGED <<disk, lock, mem, loaded, call, tries>>

\* #refreshFromDisk(true)
Reload(p) == /\ pc[p] = "locked"
             /\ mem' = [mem EXCEPT ![p] = OnDisk]
             /\ loaded' = [loaded EXCEPT ![p] = disk # NoFile]
             /\ Goto(p, "loaded")
             /\ UNCHANGED <<disk, lock, call, tries>>

Mutate(p) == /\ pc[p] = "loaded"
             /\ mem' = [mem EXCEPT ![p] = Effect[call[p]][@]]
             /\ Goto(p, "mutated")
             /\ UNCHANGED <<disk, lock, loaded, call, tries>>

\* mutate() throws (no eligible host, a record the schema refuses); what it
\* had already changed stays in memory.
MutateThrows(p) == /\ pc[p] = "loaded"
                   /\ \E c \in {mem[p], Effect[call[p]][mem[p]]} :
                        mem' = [mem EXCEPT ![p] = c]
                   /\ Goto(p, "aborting")
                   /\ UNCHANGED <<disk, lock, loaded, call, tries>>

\* #persist: writeFileSync to the temporary path ...
WriteTemp(p) == /\ pc[p] = "mutated"
                /\ Goto(p, "written")
                /\ UNCHANGED <<disk, lock, mem, loaded, call, tries>>

\* ... and renameSync over the state file.
Rename(p) == /\ pc[p] = "written"
             /\ disk' = mem[p]
             /\ loaded' = [loaded EXCEPT ![p] = TRUE]
             /\ Goto(p, "renamed")
             /\ UNCHANGED <<lock, mem, call, tries>>

\* A file operation under the lock throws: the reload, the write of the
\* temporary file or the rename (a full disk, a file that does not parse).
IOThrows(p) == /\ pc[p] \in {"locked", "mutated", "written"}
               /\ Goto(p, "aborting")
               /\ UNCHANGED <<disk, lock, mem, loaded, call, tries>>

\* A fault: the finally block swallows the exception (a return in it).
SwallowError(p) == /\ InCritical(p) /\ pc[p] \notin Locked
                   /\ lock' = FALSE
                   /\ Goto(p, "ok")
                   /\ UNCHANGED <<disk, mem, loaded, call, tries>>

\* finally: closeSync, rmSync(lockPath, force)
Unlock(p) == /\ InCritical(p) /\ pc[p] \notin Locked
             /\ lock' = FALSE
             /\ Goto(p, IF pc[p] = "renamed" THEN "ok" ELSE "failed")
             /\ UNCHANGED <<disk, mem, loaded, call, tries>>

WithWriteLock(p) ==
    \/ Acquire(p) \/ WaitForLock(p) \/ TimeOut(p) \/ OpenThrows(p)
    \/ Reload(p) \/ Mutate(p) \/ MutateThrows(p)
    \/ WriteTemp(p) \/ Rename(p) \/ IOThrows(p) \/ Unlock(p)

(***************************************************************************)
(* Reads, and the death and restart of a process                           *)
(***************************************************************************)
\* What #refreshFromDisk() makes of the copy in memory, and so what a read
\* sees: with no state file, a copy never loaded from one is kept as it is.
Refreshed(p) == IF disk = NoFile /\ ~loaded[p] THEN mem[p] ELSE OnDisk

Read(p) == /\ pc[p] \in Quiet
           /\ mem' = [mem EXCEPT ![p] = Refreshed(p)]
           /\ loaded' = [loaded EXCEPT ![p] = disk # NoFile]
           /\ UNCHANGED <<disk, lock, call, tries, pc>>

\* The process is killed; the lock file, if it had made one, stays.
Crash(p) == /\ pc[p] # "dead"
            /\ Goto(p, "dead")
            /\ UNCHANGED <<disk, lock, mem, loaded, call, tries>>

\* The constructor: emptyState(), then #refreshFromDisk(true).
Restart(p) == /\ pc[p] = "dead"
              /\ mem' = [mem EXCEPT ![p] = OnDisk]
              /\ loaded' = [loaded EXCEPT ![p] = disk # NoFile]
              /\ Goto(p, "idle")
              /\ UNCHANGED <<disk, lock, call, tries>>

Next == \E p \in Proc :
          \/ \E o \in Op : Invoke(p, o)
          \/ WithWriteLock(p)
          \/ Read(p) \/ Crash(p) \/ Restart(p)

Spec == Init /\ [][Next]_vars

\* A process that is in a call is synchronous code the OS keeps running.
FairSpec == Spec /\ \A p \in Proc : WF_vars(WithWriteLock(p))

(***************************************************************************)
(* Properties                                                              *)
(***************************************************************************)
\* At most one process is between creating and removing the lock file, and
\* while one is, the file exists (openSync "wx", rmSync in the finally).
MutualExclusion ==
    /\ \A p, q \in Proc : InCritical(p) /\ InCritical(q) => p = q
    /\ \A p \in Proc : InCritical(p) => lock

\* What a process is about to persist is the contents of the file plus its own
\* mutation, and nothing else: no other process has written since it reloaded
\* (store.ts: "reloads before write" in the store's contract tests).
CopyIsLatest ==
    \A p \in Proc :
      /\ pc[p] = "loaded" => mem[p] = OnDisk
      /\ pc[p] \in {"mutated", "written"} => mem[p] = Effect[call[p]][OnDisk]

\* The lock file exists and nobody will ever remove it.
Orphaned == lock /\ \A p \in Proc : ~InCritical(p)

\* Only the death of the process that holds it leaves the lock file behind:
\* every throw, time-out and return goes through the finally block.
OrphanedOnlyByCrash ==
    [][ ~Orphaned /\ Orphaned' =>
          \E p \in Proc : InCritical(p) /\ pc'[p] = "dead" ]_vars

\* A lock file left behind is never recovered from, by a time-out, a retry
\* or a restart: the state file keeps the contents it had for good.
OrphanFreezesState == [][ Orphaned => Orphaned' /\ disk' = disk ]_vars

\* Every write call comes back, with a result or an exception, even when the
\* lock is never released (STORE_LOCK_TIMEOUT_MS bounds the loop).
CallsReturn ==
    \A p \in Proc : pc[p] = "locking" ~> pc[p] \in Quiet \cup {"dead"}

\* A read reports contents that were committed, never what a call that threw
\* left in memory (docs/provider-api-scaffold.md: writes "persist atomically").
ReadsCommitted == \A p \in Proc : pc[p] \in Quiet => Refreshed(p) = OnDisk

(***************************************************************************)
(* Refinement: the store is an atomic store.  The call takes effect at the *)
(* rename; everything before it is pending.                                *)
(***************************************************************************)
Progress(l) == CASE l \in Quiet \cup {"dead"} -> l
                 [] l = "renamed" -> "applied"
                 [] OTHER -> "pending"

Atomic == INSTANCE AtomicStore WITH
            db <- OnDisk,
            outcome <- [p \in Proc |-> Progress(pc[p])]

ImplementsAtomicStore == Atomic!Spec
=============================================================================
