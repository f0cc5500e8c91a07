------------------------------ MODULE VaultLock ------------------------------
(***************************************************************************)
(* The lock of a vault's journal (ExecutionJournal.locked in               *)
(* executor/journal.mjs): the files executor.acquire, the gate, and        *)
(* executor.lock in the journal's directory.                               *)
(*                                                                         *)
(* One file operation of one process is a step; a process may crash        *)
(* between any two, and its files stay.  A file is named by the pid its    *)
(* creator writes into it.  A pid that is free may be given to a new       *)
(* process, so a crashed pid may come back as another executor.            *)
(*                                                                         *)
(* A definition whose comment starts with "Faulty" is the next one with a  *)
(* plausible mistake.  Nothing uses it; it shows that a property notices.  *)
(***************************************************************************)
EXTENDS Integers

CONSTANTS
    Pids,       \* the pids executors of the vault run under
    Host,       \* Host[p]: the machine of p; pids of two machines differ here
    NoFile,     \* the file does not exist
    Unwritten   \* the file exists, and its owner is not written yet

ASSUME FileAssumption == NoFile \notin Pids \cup {Unwritten} /\ Unwritten \notin Pids

VARIABLES
    gate,       \* executor.acquire: NoFile or the pid that created it
    lock,       \* executor.lock: NoFile, Unwritten or its owner
    pc,         \* pc[p]: where p is in locked()
    owner_read, \* owner_read[p]: the owner p has read from the lock
    failure     \* failure[p]: what p's last attempt ended with

lockVars == <<gate, lock, pc, owner_read, failure>>

LockInit ==
    /\ gate = NoFile /\ lock = NoFile
    /\ pc = [p \in Pids |-> "dead"]
    /\ owner_read = [p \in Pids |-> p]
    /\ failure = [p \in Pids |-> "none"]

Alive(p) == pc[p] # "dead"

Goto(p, from, to) == pc[p] = from /\ pc' = [pc EXCEPT ![p] = to]

(* locked() throws: VaultBusy, or the error of a file operation.           *)
Fail(p, from, error) ==
    /\ Goto(p, from, "failing")
    /\ failure' = [failure EXCEPT ![p] = error]

(* A call's locals are forgotten with it.                                 *)
Forget(p) ==
    /\ owner_read' = [owner_read EXCEPT ![p] = p]
    /\ failure' = [failure EXCEPT ![p] = "none"]

-----------------------------------------------------------------------------
(* Processes: they start, end between two attempts, and crash.             *)

Start(p) ==
    /\ Goto(p, "dead", "idle")
    /\ UNCHANGED <<gate, lock, owner_read, failure>>

Exit(p) ==
    /\ Goto(p, "idle", "dead") \/ Goto(p, "halted", "dead")
    /\ Forget(p)
    /\ UNCHANGED <<gate, lock>>

Crash(p) ==
    /\ Alive(p)
    /\ pc' = [pc EXCEPT ![p] = "dead"]
    /\ Forget(p)
    /\ UNCHANGED <<gate, lock>>

-----------------------------------------------------------------------------
(* The gate.  A process that finds it closed throws VaultBusy and tries    *)
(* again later, which changes nothing here.                                *)

(* Faulty: the gate of a dead process is taken over.                       *)
EnterDeadGate(p) ==
    /\ gate \in Pids => ~Alive(gate)
    /\ Goto(p, "idle", "gated")
    /\ gate' = p
    /\ UNCHANGED <<lock, owner_read, failure>>

EnterGate(p) ==
    /\ gate = NoFile
    /\ Goto(p, "idle", "gated")
    /\ gate' = p
    /\ UNCHANGED <<lock, owner_read, failure>>

(* The gate's own content cannot be written: nothing else was touched.     *)
GateFails(p) ==
    /\ Fail(p, "gated", "io")
    /\ UNCHANGED <<gate, lock, owner_read>>

(* The gate is removed, whether the lock was taken or not.  A process that *)
(* was refused tries again; another error halts the worker (worker.mjs).   *)
LeaveGate(p) ==
    /\ gate' = NoFile
    /\ \/ Goto(p, "owner", "inside") /\ Forget(p)
       \/ failure[p] = "busy" /\ Goto(p, "failing", "idle") /\ Forget(p)
       \/ failure[p] # "busy" /\ Goto(p, "failing", "halted") /\ UNCHANGED <<owner_read, failure>>
    /\ UNCHANGED lock

-----------------------------------------------------------------------------
(* Inside the gate: the lock is created, or taken from a dead owner.       *)

CreateLock(p) ==
    /\ lock = NoFile
    /\ Goto(p, "gated", "writing")
    /\ lock' = Unwritten
    /\ UNCHANGED <<gate, owner_read, failure>>

FindLock(p) ==
    /\ lock # NoFile
    /\ Goto(p, "gated", "reading")
    /\ UNCHANGED <<gate, lock, owner_read, failure>>

ReadOwner(p) ==
    /\ \/ /\ lock \in Pids /\ Goto(p, "reading", "testing")
          /\ owner_read' = [owner_read EXCEPT ![p] = lock] /\ UNCHANGED failure
       \/ lock \notin Pids /\ Fail(p, "reading", "busy") /\ UNCHANGED owner_read
    /\ UNCHANGED <<gate, lock>>

(* Faulty: any owner that does not answer here is taken for dead.           *)
SeemsDead(p, owner) == ~Alive(owner) \/ Host[owner] # Host[p]

(* Faulty: the test of the machine is inverted.                            *)
DeadElsewhere(p, owner) == ~Alive(owner) /\ Host[owner] # Host[p]

(* The owner ran on this machine, and kill(pid, 0) finds no such process.  *)
ConclusivelyDead(p, owner) == ~Alive(owner) /\ Host[owner] = Host[p]

TestOwner(p) ==
    /\ \/ ConclusivelyDead(p, owner_read[p]) /\ Goto(p, "testing", "stealing") /\ UNCHANGED failure
       \/ ~ConclusivelyDead(p, owner_read[p]) /\ Fail(p, "testing", "busy")
    /\ UNCHANGED <<gate, lock, owner_read>>

(* unlink fails if the file has gone since it was read.                    *)
UnlinkStale(p) ==
    /\ \/ lock # NoFile /\ Goto(p, "stealing", "reopening") /\ UNCHANGED failure
       \/ lock = NoFile /\ Fail(p, "stealing", "gone")
    /\ lock' = NoFile
    /\ UNCHANGED <<gate, owner_read>>

ReopenLock(p) ==
    /\ IF lock = NoFile
       THEN Goto(p, "reopening", "writing") /\ lock' = Unwritten /\ UNCHANGED failure
       ELSE Fail(p, "reopening", "exists") /\ UNCHANGED lock
    /\ UNCHANGED <<gate, owner_read>>

WriteOwner(p) ==
    /\ Goto(p, "writing", "owner")
    /\ lock' = p
    /\ UNCHANGED <<gate, owner_read, failure>>

(* The disk is full, say: the lock is removed, the error thrown.           *)
WriteFails(p) ==
    /\ Fail(p, "writing", "io")
    /\ lock' = NoFile
    /\ UNCHANGED <<gate, owner_read>>

-----------------------------------------------------------------------------
(* The guarded function is over; the lock is removed without the gate.     *)
Release(p) ==
    /\ Goto(p, "inside", "idle")
    /\ lock' = NoFile
    /\ UNCHANGED <<gate, owner_read, failure>>

Acquire(p) ==
    \/ EnterGate(p) \/ GateFails(p) \/ LeaveGate(p)
    \/ CreateLock(p) \/ FindLock(p) \/ ReadOwner(p) \/ TestOwner(p)
    \/ UnlinkStale(p) \/ ReopenLock(p) \/ WriteOwner(p) \/ WriteFails(p)

LockNext == \E p \in Pids : Start(p) \/ Exit(p) \/ Crash(p) \/ Acquire(p) \/ Release(p)

LockSpec == LockInit /\ [][LockNext]_lockVars

(* Node runs a process that is alive; nothing makes it start, end or crash. *)
FairLockSpec ==
    LockSpec /\ \A p \in Pids : WF_lockVars(Acquire(p)) /\ WF_lockVars(Release(p))
=============================================================================
