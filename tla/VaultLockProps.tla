--------------------------- MODULE VaultLockProps ---------------------------
(***************************************************************************)
(* What the lock of a vault must guarantee, for any number of processes on *)
(* any number of machines, with crashes between any two file operations    *)
(* and pids given to new processes.                                        *)
(***************************************************************************)
EXTENDS VaultLock

(* The steps at which a process holds the gate's file.                     *)
GateSteps == {"gated", "reading", "testing", "stealing", "reopening", "writing",
              "owner", "failing"}

Steps == {"dead", "idle", "inside", "halted"} \cup GateSteps

Failures == {"none", "busy", "gone", "exists", "io"}

(* TYPE: each file is absent, unwritten or names a process; each process   *)
(* is at a step of locked().                                               *)
LockTypeOK ==
    /\ gate \in Pids \cup {NoFile}
    /\ lock \in Pids \cup {NoFile, Unwritten}
    /\ pc \in [Pids -> Steps]
    /\ owner_read \in [Pids -> Pids]
    /\ failure \in [Pids -> Failures]

(* Whoever is at a step behind the gate created the gate's file.           *)
GateHeld == \A p \in Pids : pc[p] \in GateSteps => gate = p

(* Whoever runs the guarded function, or is about to, owns the lock.       *)
OwnerHasLock == \A p \in Pids : pc[p] \in {"owner", "inside"} => lock = p

(* What the process behind the gate knows of the lock.  Between the read   *)
(* and the unlink the owner may remove the lock, but nobody can replace    *)
(* it; and once found dead, the owner is not inside, even if its pid runs  *)
(* again.                                                                  *)
GateKnows ==
    \A p \in Pids :
        /\ pc[p] = "writing" => lock = Unwritten
        /\ pc[p] = "reopening" => lock = NoFile
        /\ pc[p] \in {"testing", "stealing"} => lock \in {NoFile, owner_read[p]}
        /\ pc[p] = "stealing" => pc[owner_read[p]] # "inside"

(* SAFETY: the reason the recovery of a crashed owner's lock cannot unlink *)
(* a lock another process has just taken, as locked() in journal.mjs says. *)
LockInv == LockTypeOK /\ GateHeld /\ OwnerHasLock /\ GateKnows

(* SAFETY: no two processes run guarded functions of one vault, whatever   *)
(* crashed before and whatever pids were reused.                           *)
MutualExclusion ==
    \A p, q \in Pids : pc[p] = "inside" /\ pc[q] = "inside" => p = q

(* The gate's file was left by a crash inside the gate.                    *)
Orphaned(file) == file \in Pids /\ pc[file] \notin GateSteps

(* ACTION: a crash inside the gate fails closed: its file stays, and from  *)
(* then on nobody enters, until an operator removes it.                    *)
OrphanedGateBars ==
    [][Orphaned(gate) => /\ gate' = gate
                         /\ \A p \in Pids : pc'[p] = "inside" => pc[p] = "inside"]_lockVars

(* From some time on, no write to the vault's directory fails.             *)
DiskRecovers ==
    <>[][\A p \in Pids : failure'[p] = "io" => failure[p] = "io"]_lockVars

Trying(p) == pc[p] \notin {"dead", "halted"}

(* From some time on, no process of another machine than q's tries: each   *)
(* of them finds the lock busy, but may hold the gate whenever another     *)
(* process asks for it.                                                    *)
OthersRest(q) == <>[](\A p \in Pids : Trying(p) => Host[p] = Host[q])

(* LIVENESS: once the disk works, a process that keeps trying sees the     *)
(* lock of a crashed owner of its machine recovered, unless the owner's    *)
(* pid runs again or the gate is orphaned too.                             *)
CrashedOwnerIsReplaced ==
    \A p, q \in Pids :
        (Host[p] = Host[q] /\ DiskRecovers /\ OthersRest(q)) =>
            (lock = q /\ ~Alive(q)) ~>
                (lock # q \/ Alive(q) \/ Orphaned(gate) \/ ~Trying(p))

(* DOC: contention for the lock makes a worker back off, it does not halt  *)
(* it (executor/README.md, "Watch mode backs off after ... lock            *)
(* contention"): only a file operation that really fails halts it.         *)
ContentionOnlyBacksOff == \A p \in Pids : pc[p] = "halted" => failure[p] = "io"

-----------------------------------------------------------------------------
(* REFINEMENT: the two files implement a mutex among the processes.        *)
Running == {p \in Pids : Alive(p)}
InFunction == {p \in Pids : pc[p] = "inside"}

Mutex == INSTANCE VaultMutex WITH
    Executors <- Pids, alive <- Running, inside <- InFunction

ImplementsMutex == Mutex!MutexSpec
=============================================================================
