-------------------------- MODULE SettlementProofs --------------------------
(***************************************************************************)
(* Proofs about settlement off and on the chain.  An executor: the lock of *)
(* a vault, for any processes and machines, then the journal it guards,    *)
(* for any executors, tasks and number of attempts; the journal stands on  *)
(* the mutex that the lock is proved to implement.  The orderbook, where   *)
(* settlements take effect: for any number of sellers, any orders, fees    *)
(* and payments, and proofs of any age.  The scans of a service's vaults   *)
(* and the two limiters they share: for any vaults, rows and slots.        *)
(***************************************************************************)
EXTENDS VaultLockProps, ExecutorJournalProps, OrderbookProps, VaultScans,
        TLAPS, FiniteSetTheorems, WellFoundedInduction

(* The initial state: no process runs and no file exists.                  *)
LEMMA LockInit_Inv == LockInit => LockInv
BY FileAssumption DEF LockInit, LockInv, LockTypeOK, GateHeld, OwnerHasLock, GateKnows,
    Steps, GateSteps, Failures

(* Nobody but the process behind the gate is at a step behind it.          *)
LEMMA BehindGateAlone ==
    ASSUME LockInv, NEW p \in Pids, gate \in {p, NoFile},
           NEW q \in Pids, q # p
    PROVE  pc[q] \notin GateSteps
BY FileAssumption DEF LockInv, GateHeld

(* A process of its own accord starts, ends or crashes: files stay.        *)
LEMMA LifeKeepsInv ==
    ASSUME LockInv, NEW p \in Pids, Start(p) \/ Exit(p) \/ Crash(p)
    PROVE  LockInv'
<1>1. PICK to \in {"idle", "dead"} : pc' = [pc EXCEPT ![p] = to]
  BY DEF Start, Exit, Crash, Goto
<1>2. gate' = gate /\ lock' = lock
  BY DEF Start, Exit, Crash
<1>3. /\ owner_read' \in [Pids -> Pids] /\ failure' \in [Pids -> Failures]
      /\ \A q \in Pids : q # p => owner_read'[q] = owner_read[q]
  BY DEF Start, Exit, Crash, Forget, LockInv, LockTypeOK, Failures
<1>4. /\ pc' \in [Pids -> Steps] /\ pc'[p] = to
      /\ \A q \in Pids : q # p => pc'[q] = pc[q]
  BY <1>1 DEF LockInv, LockTypeOK, Steps
<1>5. LockTypeOK'
  BY <1>2, <1>3, <1>4 DEF LockInv, LockTypeOK
<1>6. GateHeld' /\ OwnerHasLock'
  BY <1>2, <1>4 DEF LockInv, GateHeld, OwnerHasLock, GateSteps
<1>7. GateKnows'
  BY <1>2, <1>3, <1>4 DEF LockInv, LockTypeOK, GateKnows
<1> QED BY <1>5, <1>6, <1>7 DEF LockInv

(* One step of the process p behind, or entering, the gate: the shape all  *)
(* the actions of Acquire share.                                           *)
GateStep(p, to) ==
    /\ gate \in {p, NoFile}
    /\ pc' = [pc EXCEPT ![p] = to]
    /\ \E owner \in Pids : owner_read' = [owner_read EXCEPT ![p] = owner]
    /\ \E error \in Failures : failure' = [failure EXCEPT ![p] = error]

(* A step of that shape keeps the invariant if what it does to the files   *)
(* and its new place keep it for p, and the lock keeps its owner.          *)
LEMMA GateStepKeepsInv ==
    ASSUME LockInv, NEW p \in Pids, NEW to \in Steps, GateStep(p, to),
           gate' \in {p, NoFile},
           lock' \in Pids \cup {NoFile, Unwritten},
           to \in GateSteps => gate' = p,
           to \in {"owner", "inside"} => lock' = p,
           to = "writing" => lock' = Unwritten,
           to = "reopening" => lock' = NoFile,
           to \in {"testing", "stealing"} => lock' \in {NoFile, owner_read'[p]},
           to = "stealing" => pc'[owner_read'[p]] # "inside",
           \A q \in Pids : q # p /\ pc[q] = "inside" => lock' = lock
    PROVE  LockInv'
<1>1. /\ pc' \in [Pids -> Steps] /\ pc'[p] = to
      /\ \A q \in Pids : q # p => pc'[q] = pc[q]
  BY DEF GateStep, LockInv, LockTypeOK
<1>2. \A q \in Pids : q # p => pc'[q] \notin GateSteps
  BY <1>1, BehindGateAlone DEF GateStep
<1>3. /\ owner_read' \in [Pids -> Pids]
      /\ failure' \in [Pids -> Failures]
  BY DEF GateStep, LockInv, LockTypeOK
<1>4. LockTypeOK'
  BY <1>1, <1>3 DEF LockTypeOK
<1>5. GateHeld'
  BY <1>1, <1>2 DEF GateHeld
<1>6. OwnerHasLock'
  BY <1>1, <1>2 DEF OwnerHasLock, GateSteps, LockInv
<1>7. GateKnows'
  BY <1>1, <1>2 DEF GateKnows, GateSteps
<1> QED BY <1>4, <1>5, <1>6, <1>7 DEF LockInv

(* Every step of locked() before the guarded function keeps the invariant. *)
LEMMA AcquireKeepsInv ==
    ASSUME LockInv, NEW p \in Pids, Acquire(p)
    PROVE  LockInv'
<1> USE FileAssumption
<1>1. CASE EnterGate(p)
  <2>1. GateStep(p, "gated")
    BY <1>1 DEF EnterGate, Goto, GateStep, LockInv, LockTypeOK
  <2> QED BY <1>1, <2>1, GateStepKeepsInv DEF EnterGate, Steps, GateSteps, LockInv, LockTypeOK
<1>2. CASE GateFails(p)
  <2>1. GateStep(p, "failing")
    BY <1>2 DEF GateFails, Fail, Goto, GateStep, LockInv, LockTypeOK, GateHeld, GateSteps, Failures
  <2> QED BY <1>2, <2>1, GateStepKeepsInv
          DEF GateFails, Fail, Goto, Steps, GateSteps, LockInv, LockTypeOK, GateHeld
<1>3. CASE LeaveGate(p)
  <2>1. PICK to \in {"inside", "idle", "halted"} :
            /\ pc' = [pc EXCEPT ![p] = to]
            /\ to = "inside" => pc[p] = "owner"
    BY <1>3 DEF LeaveGate, Goto
  <2>2. gate = p
    BY <1>3 DEF LeaveGate, Goto, LockInv, GateHeld, GateSteps
  <2>3. GateStep(p, to)
    BY <1>3, <2>1, <2>2 DEF LeaveGate, Forget, GateStep, LockInv, LockTypeOK, Failures
  <2>4. lock' = lock /\ gate' = NoFile /\ (to = "inside" => lock = p)
    BY <1>3, <2>1 DEF LeaveGate, LockInv, OwnerHasLock
  <2> QED BY <2>1, <2>3, <2>4, GateStepKeepsInv DEF Steps, GateSteps, LockInv, LockTypeOK
<1>4. CASE CreateLock(p)
  <2>1. gate = p /\ gate' = p /\ GateStep(p, "writing")
    BY <1>4 DEF CreateLock, Goto, GateStep, LockInv, LockTypeOK, GateHeld, GateSteps
  <2>2. \A q \in Pids : pc[q] # "inside"
    BY <1>4 DEF CreateLock, LockInv, OwnerHasLock
  <2> QED BY <1>4, <2>1, <2>2, GateStepKeepsInv DEF CreateLock, Steps, GateSteps
<1>5. CASE FindLock(p)
  <2>1. gate = p /\ gate' = p /\ GateStep(p, "reading")
    BY <1>5 DEF FindLock, Goto, GateStep, LockInv, LockTypeOK, GateHeld, GateSteps
  <2> QED BY <1>5, <2>1, GateStepKeepsInv DEF FindLock, Steps, GateSteps, LockInv, LockTypeOK
<1>6. CASE ReadOwner(p)
  <2>1. gate = p /\ gate' = p /\ lock' = lock
    BY <1>6 DEF ReadOwner, Fail, Goto, LockInv, GateHeld, GateSteps
  <2>2. PICK to \in {"testing", "failing"} :
            /\ GateStep(p, to)
            /\ to = "testing" => lock \in Pids /\ owner_read' = [owner_read EXCEPT ![p] = lock]
    BY <1>6, <2>1 DEF ReadOwner, Fail, Goto, GateStep, LockInv, LockTypeOK, Failures
  <2>3. to = "testing" => lock' = owner_read'[p]
    BY <2>1, <2>2 DEF LockInv, LockTypeOK
  <2> QED BY <2>1, <2>2, <2>3, GateStepKeepsInv DEF Steps, GateSteps, LockInv, LockTypeOK
<1>7. CASE TestOwner(p)
  <2>1. gate = p /\ gate' = p /\ lock' = lock /\ owner_read' = owner_read /\ pc[p] = "testing"
    BY <1>7 DEF TestOwner, Fail, Goto, LockInv, GateHeld, GateSteps
  <2>2. PICK to \in {"stealing", "failing"} :
            /\ GateStep(p, to)
            /\ pc' = [pc EXCEPT ![p] = to]
            /\ to = "stealing" => pc[owner_read[p]] = "dead"
    BY <1>7, <2>1 DEF TestOwner, Fail, Goto, GateStep, ConclusivelyDead, Alive,
       LockInv, LockTypeOK, Failures
  <2>3. lock \in {NoFile, owner_read[p]} /\ owner_read[p] \in Pids
    BY <2>1 DEF LockInv, LockTypeOK, GateKnows
  <2>4. to = "stealing" => pc'[owner_read'[p]] # "inside"
    BY <2>1, <2>2, <2>3 DEF LockInv, LockTypeOK
  <2> QED BY <2>1, <2>2, <2>3, <2>4, GateStepKeepsInv DEF Steps, GateSteps
<1>8. CASE UnlinkStale(p)
  <2>1. gate = p /\ gate' = p /\ lock' = NoFile /\ pc[p] = "stealing"
    BY <1>8 DEF UnlinkStale, Fail, Goto, LockInv, GateHeld, GateSteps
  <2>2. PICK to \in {"reopening", "failing"} : GateStep(p, to)
    BY <1>8, <2>1 DEF UnlinkStale, Fail, Goto, GateStep, LockInv, LockTypeOK, Failures
  <2>3. \A q \in Pids : pc[q] # "inside"
    BY <2>1 DEF LockInv, OwnerHasLock, GateKnows
  <2> QED BY <2>1, <2>2, <2>3, GateStepKeepsInv DEF Steps, GateSteps
<1>9. CASE ReopenLock(p)
  <2>1. gate = p /\ gate' = p /\ lock = NoFile
    BY <1>9 DEF ReopenLock, Fail, Goto, LockInv, GateHeld, GateKnows, GateSteps
  <2>2. lock' = Unwritten /\ GateStep(p, "writing")
    BY <1>9, <2>1 DEF ReopenLock, Goto, GateStep, LockInv, LockTypeOK
  <2>3. \A q \in Pids : pc[q] # "inside"
    BY <2>1 DEF LockInv, OwnerHasLock
  <2> QED BY <2>1, <2>2, <2>3, GateStepKeepsInv DEF Steps, GateSteps
<1>10. CASE WriteOwner(p)
  <2>1. gate = p /\ gate' = p /\ lock = Unwritten /\ lock' = p
    BY <1>10 DEF WriteOwner, Goto, LockInv, GateHeld, GateKnows, GateSteps
  <2>2. GateStep(p, "owner")
    BY <1>10, <2>1 DEF WriteOwner, Goto, GateStep, LockInv, LockTypeOK
  <2>3. \A q \in Pids : pc[q] # "inside"
    BY <2>1 DEF LockInv, OwnerHasLock
  <2> QED BY <2>1, <2>2, <2>3, GateStepKeepsInv DEF Steps, GateSteps
<1>11. CASE WriteFails(p)
  <2>1. gate = p /\ gate' = p /\ lock = Unwritten /\ lock' = NoFile
    BY <1>11 DEF WriteFails, Fail, Goto, LockInv, GateHeld, GateKnows, GateSteps
  <2>2. GateStep(p, "failing")
    BY <1>11, <2>1 DEF WriteFails, Fail, Goto, GateStep, LockInv, LockTypeOK, Failures
  <2>3. \A q \in Pids : pc[q] # "inside"
    BY <2>1 DEF LockInv, OwnerHasLock
  <2> QED BY <2>1, <2>2, <2>3, GateStepKeepsInv DEF Steps, GateSteps
<1> QED BY <1>1, <1>2, <1>3, <1>4, <1>5, <1>6, <1>7, <1>8, <1>9, <1>10, <1>11 DEF Acquire

(* The lock is released without the gate: it is the process's own.         *)
LEMMA ReleaseKeepsInv ==
    ASSUME LockInv, NEW p \in Pids, Release(p)
    PROVE  LockInv'
<1>1. /\ pc' \in [Pids -> Steps] /\ pc'[p] = "idle"
      /\ \A q \in Pids : q # p => pc'[q] = pc[q]
  BY DEF Release, Goto, LockInv, LockTypeOK, Steps
<1>2. lock = p /\ lock' = NoFile /\ gate' = gate /\ owner_read' = owner_read /\ failure' = failure
  BY DEF Release, Goto, LockInv, OwnerHasLock
<1>3. \A q \in Pids : q # p => pc[q] \notin {"owner", "inside", "writing", "reopening"}
  BY <1>2, FileAssumption DEF LockInv, OwnerHasLock, GateKnows
<1>4. LockTypeOK'
  BY <1>1, <1>2 DEF LockInv, LockTypeOK
<1>5. GateHeld' /\ OwnerHasLock'
  BY <1>1, <1>2, <1>3 DEF LockInv, GateHeld, OwnerHasLock, GateSteps
<1>6. GateKnows'
  BY <1>1, <1>2, <1>3 DEF LockInv, LockTypeOK, GateKnows
<1> QED BY <1>4, <1>5, <1>6 DEF LockInv

LEMMA LockNextKeepsInv == LockInv /\ [LockNext]_lockVars => LockInv'
<1>1. CASE UNCHANGED lockVars
  BY <1>1 DEF lockVars, LockInv, LockTypeOK, GateHeld, OwnerHasLock, GateKnows
<1>2. CASE LockNext
  BY <1>2, LifeKeepsInv, AcquireKeepsInv, ReleaseKeepsInv DEF LockNext
<1> QED BY <1>1, <1>2

-----------------------------------------------------------------------------
(* The invariant of locked(): what the process behind the gate knows of    *)
(* the lock stays true although owners release it without the gate.        *)
THEOREM LockCorrect == LockSpec => []LockInv
BY LockInit_Inv, LockNextKeepsInv, PTL DEF LockSpec

(* At most one process runs a function guarded by the vault's lock.        *)
THEOREM LockExcludes == LockSpec => []MutualExclusion
<1>1. LockInv => MutualExclusion
  BY DEF LockInv, OwnerHasLock, MutualExclusion
<1> QED BY <1>1, LockCorrect, PTL

-----------------------------------------------------------------------------
(* Entering the guarded function is the last step behind the gate.         *)
LEMMA EntersFromGate ==
    ASSUME LockInv, NEW p \in Pids, NEW q \in Pids,
           Start(p) \/ Exit(p) \/ Crash(p) \/ Acquire(p) \/ Release(p),
           pc'[q] = "inside", pc[q] # "inside"
    PROVE  q = p /\ pc[p] = "owner" /\ gate = p
<1>1. q = p
  BY DEF Start, Exit, Crash, Acquire, Release, EnterGate, GateFails, LeaveGate, CreateLock,
     FindLock, ReadOwner, TestOwner, UnlinkStale, ReopenLock, WriteOwner, WriteFails,
     Fail, Goto, LockInv, LockTypeOK
<1>2. pc[p] = "owner"
  BY <1>1 DEF Start, Exit, Crash, Acquire, Release, EnterGate, GateFails, LeaveGate, CreateLock,
     FindLock, ReadOwner, TestOwner, UnlinkStale, ReopenLock, WriteOwner, WriteFails,
     Fail, Goto, LockInv, LockTypeOK
<1> QED BY <1>1, <1>2 DEF LockInv, GateHeld, GateSteps

(* Only a process behind the gate removes the gate's file.                 *)
LEMMA GateMovesFromBehind ==
    ASSUME LockInv, NEW p \in Pids, gate \in Pids,
           Start(p) \/ Exit(p) \/ Crash(p) \/ Acquire(p) \/ Release(p),
           gate' # gate
    PROVE  gate = p /\ pc[p] \in GateSteps
<1>1. LeaveGate(p)
  BY FileAssumption
  DEF Start, Exit, Crash, Acquire, Release, EnterGate, GateFails, CreateLock,
     FindLock, ReadOwner, TestOwner, UnlinkStale, ReopenLock, WriteOwner, WriteFails
<1> QED BY <1>1 DEF LeaveGate, Goto, LockInv, GateHeld, GateSteps

(* A gate left by a crash inside it stays, and nobody enters any more.     *)
THEOREM GateFailsClosed == LockSpec => OrphanedGateBars
<1>1. LockInv /\ [LockNext]_lockVars =>
        [Orphaned(gate) => /\ gate' = gate
                           /\ \A p \in Pids : pc'[p] = "inside" => pc[p] = "inside"]_lockVars
  <2> SUFFICES ASSUME LockInv, LockNext, Orphaned(gate)
               PROVE  /\ gate' = gate
                      /\ \A p \in Pids : pc'[p] = "inside" => pc[p] = "inside"
    OBVIOUS
  <2>1. PICK p \in Pids : Start(p) \/ Exit(p) \/ Crash(p) \/ Acquire(p) \/ Release(p)
    BY DEF LockNext
  <2>2. gate' = gate
    BY <2>1, GateMovesFromBehind DEF Orphaned
  <2>3. ASSUME NEW q \in Pids, pc'[q] = "inside", pc[q] # "inside" PROVE FALSE
    BY <2>1, <2>3, EntersFromGate DEF Orphaned, GateSteps
  <2> QED BY <2>2, <2>3
<1> QED BY <1>1, LockCorrect, PTL DEF LockSpec, OrphanedGateBars

(* A step that moves no process into or out of life or the function is a   *)
(* stutter of the mutex.                                                   *)
LEMMA MutexStutters ==
    ASSUME LockInv, NEW p \in Pids, NEW to \in Steps \ {"dead", "inside"},
           pc[p] \notin {"dead", "inside"}, pc' = [pc EXCEPT ![p] = to]
    PROVE  Running' = Running /\ InFunction' = InFunction
BY DEF LockInv, LockTypeOK, Running, InFunction, Alive

(* A step of locked() enters the function or stutters.                     *)
LEMMA AcquireRefines ==
    ASSUME LockInv, NEW p \in Pids, Acquire(p)
    PROVE  Mutex!Enter(p) \/ (Running' = Running /\ InFunction' = InFunction)
<1>1. CASE LeaveGate(p) /\ pc[p] = "owner"
  <2>1. pc' = [pc EXCEPT ![p] = "inside"]
    BY <1>1 DEF LeaveGate, Goto
  <2>2. \A q \in Pids : pc[q] # "inside"
    BY <1>1 DEF LockInv, OwnerHasLock
  <2>3. InFunction = {} /\ InFunction' = {p}
    BY <2>1, <2>2 DEF InFunction, LockInv, LockTypeOK
  <2>4. p \in Running /\ Running' = Running
    BY <1>1, <2>1 DEF Running, Alive, LockInv, LockTypeOK
  <2> QED BY <2>3, <2>4 DEF Mutex!Enter
<1>2. CASE ~(LeaveGate(p) /\ pc[p] = "owner")
  <2>1. \E to \in Steps \ {"dead", "inside"} :
            pc[p] \notin {"dead", "inside"} /\ pc' = [pc EXCEPT ![p] = to]
    BY <1>2 DEF Acquire, EnterGate, GateFails, LeaveGate, CreateLock, FindLock, ReadOwner,
       TestOwner, UnlinkStale, ReopenLock, WriteOwner, WriteFails, Fail, Goto, Steps, GateSteps
  <2> QED BY <2>1, MutexStutters
<1> QED BY <1>1, <1>2

LEMMA LifeRefines ==
    ASSUME LockInv, NEW p \in Pids, Start(p) \/ Exit(p) \/ Crash(p)
    PROVE  Mutex!Boot(p) \/ Mutex!Stop(p)
<1>1. CASE Start(p)
  BY <1>1 DEF Start, Goto, Mutex!Boot, Running, InFunction, Alive, LockInv, LockTypeOK
<1>2. CASE Exit(p) \/ Crash(p)
  BY <1>2 DEF Exit, Crash, Goto, Mutex!Stop, Running, InFunction, Alive, LockInv, LockTypeOK
<1> QED BY <1>1, <1>2

LEMMA ReleaseRefines ==
    ASSUME LockInv, NEW p \in Pids, Release(p)
    PROVE  Mutex!Leave(p)
BY DEF Release, Goto, Mutex!Leave, Running, InFunction, Alive, LockInv, LockTypeOK

(* The lock implements the mutex: initial states and steps map to those of *)
(* VaultMutex, or to none.                                                 *)
THEOREM LockRefinesMutex == LockSpec => ImplementsMutex
<1>1. LockInit => Mutex!MutexInit
  BY DEF LockInit, Mutex!MutexInit, Running, InFunction, Alive
<1>2. LockInv /\ [LockNext]_lockVars => [Mutex!MutexNext]_(Mutex!mutexVars)
  <2>1. CASE UNCHANGED lockVars
    BY <2>1 DEF lockVars, Mutex!mutexVars, Running, InFunction, Alive
  <2>2. ASSUME LockInv, NEW p \in Pids,
               Start(p) \/ Exit(p) \/ Crash(p) \/ Acquire(p) \/ Release(p)
        PROVE  [Mutex!MutexNext]_(Mutex!mutexVars)
    BY <2>2, LifeRefines, AcquireRefines, ReleaseRefines DEF Mutex!MutexNext, Mutex!mutexVars
  <2> QED BY <2>1, <2>2 DEF LockNext
<1> QED BY <1>1, <1>2, LockCorrect, PTL DEF LockSpec, ImplementsMutex, Mutex!MutexSpec

-----------------------------------------------------------------------------
(* The journal's inductive invariant.                                      *)

(* The jobs at which a process runs the function the lock guards.          *)
LockedJobs == {"reconciling", "refused", "proving", "intended", "waiting", "answered"}

(* One process is inside; it is the one whose job needs the lock, and only *)
(* while it reconciles has it pending intents to judge.                    *)
LockHeld ==
    /\ \A p, q \in inside : p = q
    /\ \A p \in Executors : job[p] \in LockedJobs <=> p \in inside
    /\ \A p \in Executors : todo[p] # {} => job[p] = "reconciling"
    /\ \A p \in Executors : todo[p] \subseteq Pending(journal)

(* Intents name their attempts with numbers that grow without gaps.        *)
AttemptsNumbered ==
    /\ \A i \in Intents(journal) : journal[i].attempt <= Cardinality(Intents(journal))
    /\ \A i, k \in Intents(journal) : journal[i].attempt = journal[k].attempt => i = k

(* Only the last intent may be pending, and no intent supersedes another:  *)
(* a verdict came before the next one.                                     *)
OneAtATime ==
    /\ \A i \in Pending(journal), k \in Intents(journal) : k <= i
    /\ \A i \in Intents(journal), j \in Intents(journal) :
           Resolves(journal, i, j) =>
               \E k \in DOMAIN journal : k < j /\ Resolves(journal, i, k)

(* A task that was included has no pending intent.                         *)
DoneIsDone == \A i \in Pending(journal) : ~IsIncluded(journal[i].task)

(* The attempt at i is what p works on.                                    *)
WorksOn(p, i) ==
    /\ journal[i].task = task[p]
    /\ job[p] = "intended" => driver[journal[i].attempt] = "none"

(* What each job means for its task.                                       *)
JobsMean ==
    \A p \in Executors :
        /\ job[p] \in {"scanned", "proving"} => task[p] \in Tasks
        /\ job[p] = "proving" => Pending(journal) = {} /\ ~IsIncluded(task[p])
        /\ job[p] \in {"intended", "waiting", "answered"} =>
               \E i \in Pending(journal) : WorksOn(p, i)

(* The attempt can no longer reach the chain, and has not.                 *)
IsLost(a) == driver[a] = "over" /\ chain[a] = "absent"

IsPending(a) == \E i \in Pending(journal) : journal[i].attempt = a

(* What drives an attempt, and what its log and results say, agree with    *)
(* what the chain may hold of it.                                          *)
WireAgrees ==
    \A a \in Attempts :
        /\ driver[a] \in {"none", "running", "announced"} => chain[a] = "absent"
        /\ driver[a] \in {"running", "announced"} \/ chain[a] = "pending" => IsPending(a)
        /\ ~IsUsed(a) => driver[a] = "none"
        /\ log[a] = "rejected" => IsLost(a)

RefusalsAreTrue ==
    \A i \in Pending(journal) : \A j \in ResultsOf(i) :
        journal[j].outcome = "not-submitted" => IsLost(journal[i].attempt)

(* The journal knows of every task the chain included, unless the attempt  *)
(* is still pending; and the chain included each task once.                *)
InclusionsAreKnown ==
    /\ \A i \in Intents(journal) \ Pending(journal) :
           chain[journal[i].attempt] = "included" => IsIncluded(journal[i].task)
    /\ \A i, k \in Intents(journal) :
           (/\ journal[i].task = journal[k].task
            /\ chain[journal[i].attempt] = "included"
            /\ chain[journal[k].attempt] = "included") => i = k

JournalIInv ==
    /\ JournalTypeOK /\ LockHeld /\ AttemptsNumbered /\ OneAtATime /\ DoneIsDone
    /\ JobsMean /\ WireAgrees /\ RefusalsAreTrue /\ InclusionsAreKnown

-----------------------------------------------------------------------------
(* Records and positions.                                                  *)

(* A set of numbers that is not empty has a least one.                     *)
LEMMA HasLeast ==
    ASSUME NEW S \in SUBSET Nat, S # {}
    PROVE  /\ Min(S) \in S
           /\ \A k \in S : Min(S) <= k
<1>1. PICK m \in S : \A k \in S : ~ (<<k, m>> \in OpToRel(<, Nat))
  BY NatLessThanWellFounded, WFMin, Zenon
<1>2. \A k \in S : m <= k
  <2> TAKE k \in S
  <2>1. m \in Nat /\ k \in Nat
    OBVIOUS
  <2>2. SUFFICES ASSUME k < m PROVE FALSE
    BY <2>1
  <2>3. <<k, m>> \in {ss \in Nat \X Nat : ss[1] < ss[2]}
    BY <2>1, <2>2
  <2> QED BY <1>1, <2>3 DEF OpToRel
<1> QED BY <1>2 DEF Min

(* A bounded set of numbers that is not empty has a greatest one.          *)
LEMMA HasGreatest ==
    ASSUME NEW n \in Nat, NEW S \in SUBSET (1 .. n), S # {}
    PROVE  \E m \in S : \A k \in S : k <= m
<1> DEFINE D == {n - k : k \in S}
<1>1. D \in SUBSET Nat /\ D # {}
  <2>1. \A k \in S : k \in 1 .. n /\ n - k \in Nat
    OBVIOUS
  <2> QED BY <2>1
<1>2. PICK d \in D : \A e \in D : d <= e
  BY <1>1, HasLeast
<1>3. PICK m \in S : d = n - m
  BY <1>2
<1>4. \A k \in S : n - m <= n - k
  BY <1>2, <1>3
<1> QED BY <1>3, <1>4

(* One more record: the earlier ones stay where they are.                  *)
LEMMA WriteAppends ==
    ASSUME JournalTypeOK, NEW r \in Records, Write(r)
    PROVE  /\ Len(journal) \in Nat
           /\ DOMAIN journal = 1 .. Len(journal)
           /\ DOMAIN journal' = 1 .. (Len(journal) + 1)
           /\ journal'[Len(journal) + 1] = r
           /\ \A i \in DOMAIN journal : journal'[i] = journal[i] /\ journal[i] \in Records
           /\ journal' \in Seq(Records)
BY DEF JournalTypeOK, Write

(* An intent is a position of the journal that holds one.                  *)
LEMMA IntentTypes ==
    ASSUME JournalTypeOK, NEW i \in Intents(journal)
    PROVE  /\ i \in 1 .. Len(journal) /\ i \in Nat
           /\ journal[i].task \in Tasks
           /\ journal[i].attempt \in Attempts
           /\ journal[i] = Intent(journal[i].task, journal[i].attempt)
<1>1. i \in 1 .. Len(journal) /\ journal[i] \in Records /\ journal[i].status = "broadcast-intent"
  BY DEF JournalTypeOK, Intents
<1>2. journal[i] \in [status : {"broadcast-intent"}, task : Tasks, attempt : Attempts]
  BY <1>1 DEF Records
<1> QED BY <1>1, <1>2 DEF Intent

LEMMA IntentsFinite ==
    ASSUME JournalTypeOK
    PROVE  /\ IsFiniteSet(Intents(journal))
           /\ Cardinality(Intents(journal)) \in Nat
<1>1. Len(journal) \in Nat /\ Intents(journal) \in SUBSET (1 .. Len(journal))
  BY DEF JournalTypeOK, Intents
<1>2. IsFiniteSet(1 .. Len(journal))
  BY <1>1, FS_Interval
<1> QED BY <1>1, <1>2, FS_Subset, FS_CardinalityType

(* A result is no verdict: it changes what is known of the pending intent, *)
(* and nothing is resolved by it.                                          *)
LEMMA ResultWritten ==
    ASSUME JournalTypeOK, NEW t \in Tasks, NEW o \in {"not-submitted", "leaf", "unknown"},
           Write(Result(t, o))
    PROVE  /\ journal' \in Seq(Records)
           /\ Intents(journal') = Intents(journal)
           /\ Pending(journal') = Pending(journal)
           /\ \A i \in Intents(journal) : journal'[i] = journal[i]
           /\ \A j \in DOMAIN journal : journal'[j] = journal[j] /\ j \in DOMAIN journal'
           /\ \A u \in Tasks : (IsIncluded(u))' = IsIncluded(u)
           /\ \A i \in Intents(journal) : \A j \in (ResultsOf(i))' :
                  \/ j \in ResultsOf(i) /\ journal'[j] = journal[j]
                  \/ journal[i].task = t /\ journal'[j].outcome = o
           /\ \A i \in Intents(journal) : ResultsOf(i) \subseteq (ResultsOf(i))'
           /\ \A i, j : Resolves(journal', i, j) /\ i \in Intents(journal) /\ j \in DOMAIN journal'
                  <=> Resolves(journal, i, j) /\ i \in Intents(journal) /\ j \in DOMAIN journal
<1> DEFINE n == Len(journal)
<1>1. Result(t, o) \in Records
  BY DEF Result, Records
<1>2. /\ n \in Nat /\ DOMAIN journal = 1 .. n /\ DOMAIN journal' = 1 .. (n + 1)
      /\ journal'[n + 1] = Result(t, o)
      /\ \A i \in 1 .. n : journal'[i] = journal[i] /\ journal[i] \in Records
      /\ journal' \in Seq(Records)
  BY <1>1, WriteAppends
<1> HIDE DEF n
<1>3. Intents(journal') = Intents(journal)
  BY <1>2 DEF Intents, Result
<1>4. \A i, j : Resolves(journal', i, j) /\ i \in Intents(journal) /\ j \in DOMAIN journal'
            <=> Resolves(journal, i, j) /\ i \in Intents(journal) /\ j \in DOMAIN journal
  BY <1>2 DEF Resolves, Result, Intents
<1>5. Pending(journal') = Pending(journal)
  BY <1>3, <1>4, Zenon DEF Pending
<1>6. \A u \in Tasks : (IsIncluded(u))' = IsIncluded(u)
  BY <1>2 DEF IsIncluded, Included, Result
<1>7. \A i \in Intents(journal) : \A j \in (ResultsOf(i))' :
                  \/ j \in ResultsOf(i) /\ journal'[j] = journal[j]
                  \/ journal[i].task = t /\ journal'[j].outcome = o
  BY <1>2 DEF ResultsOf, Intents, Result
<1>8. \A i \in Intents(journal) : ResultsOf(i) \subseteq (ResultsOf(i))'
  BY <1>2 DEF ResultsOf, Intents, Result
<1>9. \A i \in Intents(journal) : journal'[i] = journal[i]
  BY <1>2 DEF Intents
<1>10. \A j \in DOMAIN journal : journal'[j] = journal[j] /\ j \in DOMAIN journal'
  BY <1>2
<1> QED BY <1>2, <1>3, <1>4, <1>5, <1>6, <1>7, <1>8, <1>9, <1>10

(* A verdict resolves the pending intents of its task, and no other.       *)
LEMMA VerdictWritten ==
    ASSUME JournalTypeOK, NEW t \in Tasks, NEW r \in {NotSubmitted(t), Included(t)}, Write(r)
    PROVE  /\ journal' \in Seq(Records)
           /\ Intents(journal') = Intents(journal)
           /\ Pending(journal') = {i \in Pending(journal) : journal[i].task # t}
           /\ \A i \in Intents(journal) : journal'[i] = journal[i]
           /\ \A u \in Tasks : (IsIncluded(u))' <=> IsIncluded(u) \/ r = Included(u)
           /\ \A i \in Intents(journal) : (ResultsOf(i))' = ResultsOf(i)
           /\ \A j \in DOMAIN journal : journal'[j] = journal[j] /\ j \in DOMAIN journal'
           /\ DOMAIN journal' = 1 .. (Len(journal) + 1)
           /\ journal'[Len(journal) + 1] = r
<1> DEFINE n == Len(journal)
<1>1. r \in Records /\ r.status \in {"not-submitted", "included"} /\ r.task = t
  BY DEF NotSubmitted, Included, Records
<1>2. /\ n \in Nat /\ DOMAIN journal = 1 .. n /\ DOMAIN journal' = 1 .. (n + 1)
      /\ journal'[n + 1] = r
      /\ \A i \in 1 .. n : journal'[i] = journal[i] /\ journal[i] \in Records
      /\ journal' \in Seq(Records)
  BY <1>1, WriteAppends
<1> HIDE DEF n
<1>3. Intents(journal') = Intents(journal)
  BY <1>1, <1>2 DEF Intents
<1>4. ASSUME NEW i \in Intents(journal)
      PROVE  (\E j \in DOMAIN journal' : Resolves(journal', i, j))
             <=> (\E j \in DOMAIN journal : Resolves(journal, i, j)) \/ journal[i].task = t
  <2>1. i \in 1 .. n /\ i \in Nat
    BY <1>2 DEF Intents
  <2>2. \A j \in 1 .. n : Resolves(journal', i, j) <=> Resolves(journal, i, j)
    BY <1>2, <2>1 DEF Resolves
  <2>3. Resolves(journal', i, n + 1) <=> journal[i].task = t
    BY <1>1, <1>2, <2>1 DEF Resolves
  <2>4. n + 1 \in DOMAIN journal' /\ \A j \in DOMAIN journal' : j = n + 1 \/ j \in 1 .. n
    BY <1>2
  <2>5. \A j \in 1 .. n : j \in DOMAIN journal' /\ j \in DOMAIN journal
    BY <1>2
  <2> QED BY <1>2, <2>2, <2>3, <2>4, <2>5, Zenon
<1>5. Pending(journal') = {i \in Pending(journal) : journal[i].task # t}
  BY <1>3, <1>4, Zenon DEF Pending
<1>6. \A u \in Tasks : (IsIncluded(u))' <=> IsIncluded(u) \/ r = Included(u)
  <2> TAKE u \in Tasks
  <2>1. (IsIncluded(u))' <=> \E i \in 1 .. (n + 1) : journal'[i] = Included(u)
    BY <1>2 DEF IsIncluded
  <2>2. IsIncluded(u) <=> \E i \in 1 .. n : journal[i] = Included(u)
    BY <1>2 DEF IsIncluded
  <2>3. \A i \in 1 .. (n + 1) : i = n + 1 \/ i \in 1 .. n
    BY <1>2
  <2>4. n + 1 \in 1 .. (n + 1) /\ \A i \in 1 .. n : i \in 1 .. (n + 1)
    BY <1>2
  <2> QED BY <1>2, <2>1, <2>2, <2>3, <2>4, Zenon
<1>7. \A i \in Intents(journal) : (ResultsOf(i))' = ResultsOf(i)
  <2> TAKE i \in Intents(journal)
  <2>1. i \in 1 .. n
    BY <1>2 DEF Intents
  <2> QED BY <1>1, <1>2, <2>1 DEF ResultsOf
<1>8. \A i \in Intents(journal) : journal'[i] = journal[i]
  BY <1>2 DEF Intents
<1>9. \A j \in DOMAIN journal : journal'[j] = journal[j] /\ j \in DOMAIN journal'
  BY <1>2
<1> QED BY <1>2, <1>3, <1>5, <1>6, <1>7, <1>8, <1>9 DEF n

(* An intent is written when none is pending, and is then the only one.    *)
LEMMA IntentWritten ==
    ASSUME JournalTypeOK, NEW t \in Tasks, NEW a \in Attempts, Write(Intent(t, a)),
           Pending(journal) = {}
    PROVE  /\ journal' \in Seq(Records)
           /\ Len(journal) \in Nat /\ Len(journal) + 1 \notin Intents(journal)
           /\ Intents(journal') = Intents(journal) \cup {Len(journal) + 1}
           /\ Pending(journal') = {Len(journal) + 1}
           /\ journal'[Len(journal) + 1] = Intent(t, a)
           /\ DOMAIN journal' = 1 .. (Len(journal) + 1)
           /\ \A i \in DOMAIN journal : journal'[i] = journal[i]
           /\ \A u \in Tasks : (IsIncluded(u))' = IsIncluded(u)
           /\ \A m : m = Len(journal) + 1 => (ResultsOf(m))' = {}
<1> DEFINE n == Len(journal)
<1>1. Intent(t, a) \in Records
  BY DEF Intent, Records
<1>2. /\ n \in Nat /\ DOMAIN journal = 1 .. n /\ DOMAIN journal' = 1 .. (n + 1)
      /\ journal'[n + 1] = Intent(t, a)
      /\ \A i \in 1 .. n : journal'[i] = journal[i] /\ journal[i] \in Records
      /\ journal' \in Seq(Records)
  BY <1>1, WriteAppends
<1> HIDE DEF n
<1>3. Intents(journal') = Intents(journal) \cup {n + 1}
  BY <1>2 DEF Intents, Intent
<1>4. \A i \in Intents(journal) : i \notin Pending(journal')
  <2> TAKE i \in Intents(journal)
  <2>1. PICK j \in 1 .. n : Resolves(journal, i, j)
    BY <1>2 DEF Pending
  <2>2. i \in 1 .. n
    BY <1>2 DEF Intents
  <2>3. Resolves(journal', i, j)
    BY <1>2, <2>1, <2>2 DEF Resolves
  <2> QED BY <1>2, <2>3 DEF Pending
<1>5. n + 1 \in Pending(journal')
  BY <1>2, <1>3 DEF Pending, Resolves
<1>6. Pending(journal') = {n + 1}
  BY <1>3, <1>4, <1>5 DEF Pending
<1>7. \A u \in Tasks : (IsIncluded(u))' = IsIncluded(u)
  BY <1>2 DEF IsIncluded, Included, Intent
<1>8. \A m : m = n + 1 => (ResultsOf(m))' = {}
  BY <1>2 DEF ResultsOf
<1>9. n + 1 \notin Intents(journal)
  BY <1>2 DEF Intents
<1> QED BY <1>2, <1>3, <1>6, <1>7, <1>8, <1>9 DEF n

-----------------------------------------------------------------------------
(* The invariant.                                                          *)

LEMMA JournalInit_IInv == JournalInit => JournalIInv
<1> SUFFICES ASSUME JournalInit PROVE JournalIInv
  OBVIOUS
<1>1. journal = <<>> /\ journal \in Seq(Records) /\ DOMAIN journal = {}
  BY DEF JournalInit
<1>2. Intents(journal) = {} /\ Pending(journal) = {}
  BY <1>1 DEF Intents, Pending
<1>3. JournalTypeOK
  BY <1>1 DEF JournalInit, JournalTypeOK, MutexInit, Jobs
<1>4. LockHeld /\ JobsMean
  BY DEF JournalInit, MutexInit, LockHeld, JobsMean, LockedJobs
<1>5. AttemptsNumbered /\ OneAtATime /\ DoneIsDone /\ RefusalsAreTrue /\ InclusionsAreKnown
  BY <1>2 DEF AttemptsNumbered, OneAtATime, DoneIsDone, RefusalsAreTrue, InclusionsAreKnown
<1>6. WireAgrees
  BY DEF JournalInit, WireAgrees
<1> QED BY <1>3, <1>4, <1>5, <1>6 DEF JournalIInv

(* What is said of the journal stays while it does.                        *)
LEMMA JournalStays ==
    ASSUME journal' = journal
    PROVE  /\ \A u : (IsIncluded(u))' = IsIncluded(u)
           /\ \A i : (ResultsOf(i))' = ResultsOf(i)
           /\ \A a : (IsUsed(a))' = IsUsed(a) /\ (IsPending(a))' = IsPending(a)
           /\ Intents(journal') = Intents(journal) /\ Pending(journal') = Pending(journal)
BY DEF IsIncluded, ResultsOf, IsUsed, IsPending

(* The parts about the journal alone stay with it, those about the wire    *)
(* with the wire too.                                                      *)
LEMMA RecordsStay ==
    ASSUME AttemptsNumbered, OneAtATime, DoneIsDone, journal' = journal
    PROVE  AttemptsNumbered' /\ OneAtATime' /\ DoneIsDone'
<1>1. AttemptsNumbered' /\ OneAtATime'
  BY DEF AttemptsNumbered, OneAtATime
<1>2. DoneIsDone'
  BY JournalStays DEF DoneIsDone
<1> QED BY <1>1, <1>2

LEMMA WireStays ==
    ASSUME WireAgrees, RefusalsAreTrue, InclusionsAreKnown,
           UNCHANGED <<journal, log, driver, chain>>
    PROVE  WireAgrees' /\ RefusalsAreTrue' /\ InclusionsAreKnown'
<1>1. WireAgrees'
  BY JournalStays DEF WireAgrees, IsLost
<1>2. RefusalsAreTrue'
  BY JournalStays DEF RefusalsAreTrue, IsLost
<1>3. InclusionsAreKnown'
  BY JournalStays DEF InclusionsAreKnown
<1> QED BY <1>1, <1>2, <1>3

(* A step of one process that writes nothing, takes or leaves the lock as  *)
(* its new job demands, and has a task and nothing to judge where the job  *)
(* says so.                                                                *)
ProcessMoves(p, to, t, intents) ==
    /\ job' = [job EXCEPT ![p] = to]
    /\ task' = [task EXCEPT ![p] = t]
    /\ todo' = [todo EXCEPT ![p] = intents]
    /\ UNCHANGED <<files, world>>

LEMMA ProcessMovesKeeps ==
    ASSUME JournalIInv, NEW p \in Executors, NEW to \in Jobs, NEW t \in Tasks \cup {NoTask},
           NEW intents \in SUBSET Pending(journal),
           ProcessMoves(p, to, t, intents),
           alive' \subseteq Executors, inside' \subseteq alive',
           \/ inside' = inside \ {p} /\ to \notin LockedJobs
           \/ inside' = {p} /\ inside \subseteq {p} /\ to \in LockedJobs,
           intents # {} => to = "reconciling",
           to \in {"scanned", "proving"} => t \in Tasks,
           to = "proving" => Pending(journal) = {} /\ ~IsIncluded(t),
           to \notin {"intended", "waiting", "answered"}
    PROVE  JournalIInv'
<1> USE DEF JournalIInv
<1>1. UNCHANGED <<journal, log, driver, chain, current>>
  BY DEF ProcessMoves, files, world
<1>2. /\ Pending(journal') = Pending(journal) /\ Intents(journal') = Intents(journal)
      /\ \A u : (IsIncluded(u))' = IsIncluded(u)
  BY <1>1, JournalStays
<1>3. /\ job' \in [Executors -> Jobs] /\ job'[p] = to
      /\ task' \in [Executors -> Tasks \cup {NoTask}] /\ task'[p] = t
      /\ todo' \in [Executors -> SUBSET Intents(journal)] /\ todo'[p] = intents
      /\ \A q \in Executors : q # p => /\ job'[q] = job[q] /\ task'[q] = task[q]
                                       /\ todo'[q] = todo[q]
  BY DEF ProcessMoves, JournalTypeOK, Pending
<1>4. JournalTypeOK'
  BY <1>1, <1>3 DEF JournalTypeOK
<1>5. LockHeld'
  <2>1. \A q, r \in inside' : q = r
    BY DEF LockHeld
  <2>2. ASSUME NEW q \in Executors PROVE job'[q] \in LockedJobs <=> q \in inside'
    BY <1>3 DEF LockHeld
  <2>3. ASSUME NEW q \in Executors PROVE todo'[q] # {} => job'[q] = "reconciling"
    BY <1>3 DEF LockHeld
  <2>4. ASSUME NEW q \in Executors PROVE todo'[q] \subseteq Pending(journal')
    BY <1>2, <1>3 DEF LockHeld
  <2> QED BY <2>1, <2>2, <2>3, <2>4 DEF LockHeld
<1>6. JobsMean'
  <2> SUFFICES ASSUME NEW q \in Executors
               PROVE  /\ job'[q] \in {"scanned", "proving"} => task'[q] \in Tasks
                      /\ job'[q] = "proving" => Pending(journal') = {} /\ (~IsIncluded(task[q]))'
                      /\ job'[q] \in {"intended", "waiting", "answered"} =>
                             \E i \in Pending(journal') : (WorksOn(q, i))'
    BY DEF JobsMean
  <2>1. CASE q = p
    BY <1>2, <1>3, <2>1
  <2>2. CASE q # p
    BY <1>1, <1>2, <1>3, <2>2 DEF JobsMean, WorksOn
  <2> QED BY <2>1, <2>2
<1>7. AttemptsNumbered' /\ OneAtATime' /\ DoneIsDone'
  BY <1>1, RecordsStay
<1>8. WireAgrees' /\ RefusalsAreTrue' /\ InclusionsAreKnown'
  BY <1>1, WireStays
<1> QED BY <1>4, <1>5, <1>6, <1>7, <1>8

LEMMA BeginKeeps ==
    ASSUME JournalIInv, NEW p \in Executors, Begin(p)
    PROVE  JournalIInv'
<1> USE DEF JournalIInv
<1>1. /\ alive' = alive \cup {p} /\ inside' = inside
      /\ UNCHANGED <<journal, log, job, task, todo, driver, chain, current>>
  BY DEF Begin, Boot, files, process, world
<1>2. JournalTypeOK'
  BY <1>1 DEF JournalTypeOK
<1>3. LockHeld'
  BY <1>1 DEF LockHeld
<1>4. JobsMean'
  BY <1>1, JournalStays DEF JobsMean, WorksOn
<1> QED BY <1>1, <1>2, <1>3, <1>4, RecordsStay, WireStays

(* The steps that only move a process.                                     *)
LEMMA RestMoves ==
    ASSUME NEW p \in Executors, Rest(p), UNCHANGED <<files, world>>
    PROVE  ProcessMoves(p, "idle", NoTask, {})
BY DEF Rest, ProcessMoves

LEMMA StepsKeep ==
    ASSUME JournalIInv, NEW p \in Executors,
           \/ End(p) \/ BeginReconcile(p) \/ ReadFails(p) \/ IndexerLags(p) \/ EndReconcile(p)
           \/ Scan(p) \/ BeginExecute(p) \/ Refuse(p) \/ GiveUp(p)
    PROVE  JournalIInv'
<1> USE DEF JournalIInv
<1>1. /\ alive \subseteq Executors /\ inside \subseteq alive
      /\ job \in [Executors -> Jobs] /\ task \in [Executors -> Tasks \cup {NoTask}]
      /\ todo \in [Executors -> SUBSET Intents(journal)]
      /\ current \in Tasks \cup {NoTask} /\ NoTask \notin Tasks
  BY TaskAssumption DEF JournalTypeOK
<1>2. /\ \A q, r \in inside : q = r
      /\ job[p] \in LockedJobs <=> p \in inside
      /\ todo[p] # {} => job[p] = "reconciling"
      /\ todo[p] \subseteq Pending(journal)
  BY DEF LockHeld
<1>3. /\ job[p] \in {"scanned", "proving"} => task[p] \in Tasks
      /\ task = [task EXCEPT ![p] = task[p]] /\ todo = [todo EXCEPT ![p] = todo[p]]
      /\ job = [job EXCEPT ![p] = job[p]]
  BY <1>1 DEF JobsMean
<1>4. CASE End(p)
  <2>1. ProcessMoves(p, "idle", NoTask, {})
    BY <1>4, RestMoves DEF End
  <2>2. alive' \subseteq Executors /\ inside' \subseteq alive' /\ inside' = inside \ {p}
    BY <1>1, <1>4 DEF End, Stop
  <2> QED BY <2>1, <2>2, ProcessMovesKeeps DEF Jobs, LockedJobs
<1>5. CASE ReadFails(p) \/ Refuse(p) \/ GiveUp(p)
  <2>1. Leave(p) /\ Rest(p) /\ UNCHANGED <<files, world>>
    BY <1>5 DEF ReadFails, Refuse, GiveUp, Finish
  <2>2. ProcessMoves(p, "idle", NoTask, {})
    BY <2>1, RestMoves
  <2>3. alive' \subseteq Executors /\ inside' \subseteq alive' /\ inside' = inside \ {p}
    BY <1>1, <2>1 DEF Leave
  <2> QED BY <2>2, <2>3, ProcessMovesKeeps DEF Jobs, LockedJobs
<1>6. CASE BeginReconcile(p)
  <2>1. ProcessMoves(p, "reconciling", task[p], Pending(journal))
    BY <1>3, <1>6 DEF BeginReconcile, ProcessMoves
  <2>2. alive' \subseteq Executors /\ inside' \subseteq alive' /\ inside' = {p} /\ inside = {}
    BY <1>1, <1>6 DEF BeginReconcile, Enter
  <2> QED BY <1>1, <2>1, <2>2, ProcessMovesKeeps DEF Jobs, LockedJobs
<1>7. CASE IndexerLags(p)
  <2>1. job[p] = "reconciling"
    BY <1>7 DEF IndexerLags, AsksReceipt
  <2>2. ProcessMoves(p, "reconciling", task[p], todo[p] \ {Min(todo[p])})
    BY <1>1, <1>3, <1>7, <2>1 DEF IndexerLags, ProcessMoves
  <2>3. p \in inside /\ inside = {p} /\ inside' = inside /\ alive' = alive
    BY <1>2, <1>7, <2>1 DEF IndexerLags, LockedJobs, mutexVars
  <2> QED BY <1>1, <1>2, <2>2, <2>3, ProcessMovesKeeps DEF Jobs, LockedJobs
<1>8. CASE EndReconcile(p)
  <2>1. ProcessMoves(p, "reconciled", task[p], {})
    BY <1>1, <1>3, <1>8 DEF EndReconcile, ProcessMoves
  <2>2. alive' \subseteq Executors /\ inside' \subseteq alive' /\ inside' = inside \ {p}
    BY <1>1, <1>8 DEF EndReconcile, Leave
  <2> QED BY <1>1, <2>1, <2>2, ProcessMovesKeeps DEF Jobs, LockedJobs
<1>9. CASE Scan(p)
  <2>1. job[p] = "reconciled" /\ inside' = inside /\ alive' = alive
    BY <1>9 DEF Scan, mutexVars
  <2>2. inside' = inside \ {p} /\ todo[p] = {}
    BY <1>2, <2>1 DEF LockedJobs
  <2>3. CASE Pending(journal) = {} /\ current # NoTask
    <3>1. ProcessMoves(p, "scanned", current, {})
      BY <1>1, <1>3, <1>9, <2>2, <2>3 DEF Scan, ProcessMoves
    <3> QED BY <1>1, <2>1, <2>2, <2>3, <3>1, ProcessMovesKeeps DEF Jobs, LockedJobs
  <2>4. CASE ~(Pending(journal) = {} /\ current # NoTask)
    <3>1. ProcessMoves(p, "idle", NoTask, {})
      BY <1>9, <2>4, RestMoves DEF Scan
    <3> QED BY <1>1, <2>1, <2>2, <3>1, ProcessMovesKeeps DEF Jobs, LockedJobs
  <2> QED BY <2>3, <2>4
<1>10. CASE BeginExecute(p)
  <2>1. job[p] = "scanned" /\ task[p] \in Tasks /\ todo[p] = {}
    BY <1>2, <1>3, <1>10 DEF BeginExecute
  <2>2. alive' \subseteq Executors /\ inside' \subseteq alive' /\ inside' = {p} /\ inside = {}
    BY <1>1, <1>10 DEF BeginExecute, Enter
  <2>3. CASE MayExecute(task[p])
    <3>1. ProcessMoves(p, "proving", task[p], {})
      BY <1>3, <1>10, <2>1, <2>3 DEF BeginExecute, ProcessMoves
    <3> QED BY <1>1, <2>1, <2>2, <2>3, <3>1, ProcessMovesKeeps DEF Jobs, LockedJobs, MayExecute
  <2>4. CASE ~MayExecute(task[p])
    <3>1. ProcessMoves(p, "refused", task[p], {})
      BY <1>3, <1>10, <2>1, <2>4 DEF BeginExecute, ProcessMoves
    <3> QED BY <1>1, <2>1, <2>2, <3>1, ProcessMovesKeeps DEF Jobs, LockedJobs
  <2> QED BY <2>3, <2>4
<1> QED BY <1>4, <1>5, <1>6, <1>7, <1>8, <1>9, <1>10

-----------------------------------------------------------------------------
(* The pending attempt.                                                    *)

(* The pending intent is the last one, and is all that is pending.         *)
LEMMA LastIsPending ==
    ASSUME JournalTypeOK, OneAtATime, NEW i \in Pending(journal)
    PROVE  /\ LastIntent = i /\ Pending(journal) = {i} /\ i \in Intents(journal)
           /\ Min({i}) = i
<1>1. i \in Intents(journal) /\ i \in Nat /\ \A k \in Intents(journal) : k <= i /\ k \in Nat
  BY IntentTypes DEF Pending, OneAtATime
<1>2. \A k \in Intents(journal) \cup {0} : i >= k
  BY <1>1
<1>3. LastIntent = i
  <2> DEFINE S == Intents(journal) \cup {0}
  <2>1. i \in S /\ \A y \in S : i >= y
    BY <1>1, <1>2
  <2>2. Max(S) \in S /\ \A y \in S : Max(S) >= y
    BY <2>1, Zenon DEF Max
  <2>3. \A y \in S : y \in Nat
    BY <1>1
  <2> HIDE DEF S
  <2>4. Max(S) \in Nat /\ Max(S) >= i /\ i >= Max(S)
    BY <2>1, <2>2, <2>3
  <2>5. Max(S) = i
    BY <1>1, <2>4
  <2> USE DEF S
  <2> QED BY <2>5 DEF LastIntent
<1>4. \A k \in Pending(journal) : k <= i /\ i <= k /\ k \in Nat
  BY <1>1, IntentTypes DEF OneAtATime, Pending
<1>5. Pending(journal) = {i}
  <2>1. \A k \in Pending(journal) : k = i
    BY <1>1, <1>4
  <2> QED BY <2>1
<1>6. Min({i}) = i
  BY <1>1, HasLeast
<1> QED BY <1>1, <1>3, <1>5, <1>6

(* What p works on is the last intent, and nothing else is pending.        *)
LEMMA WorkIsLast ==
    ASSUME JournalIInv, NEW p \in Executors, job[p] \in {"intended", "waiting", "answered"}
    PROVE  /\ Pending(journal) = {LastIntent} /\ LastIntent \in Intents(journal)
           /\ WorksOn(p, LastIntent)
           /\ p \in inside /\ inside = {p} /\ todo[p] = {}
           /\ task[p] \in Tasks /\ journal[LastIntent].task = task[p]
           /\ journal[LastIntent].attempt \in Attempts
<1> USE DEF JournalIInv
<1>1. PICK i \in Pending(journal) : WorksOn(p, i)
  BY DEF JobsMean
<1>2. LastIntent = i /\ Pending(journal) = {i} /\ i \in Intents(journal)
  BY LastIsPending
<1>3. p \in inside /\ inside = {p} /\ todo[p] = {}
  BY DEF LockHeld, LockedJobs
<1> QED BY <1>1, <1>2, <1>3, IntentTypes DEF WorksOn

(* What is judged is the only pending attempt.                             *)
LEMMA JudgedIsLast ==
    ASSUME JournalIInv, NEW p \in Executors, todo[p] # {}
    PROVE  /\ todo[p] = {Min(todo[p])} /\ Pending(journal) = {Min(todo[p])}
           /\ Min(todo[p]) \in Intents(journal)
           /\ job[p] = "reconciling" /\ inside = {p} /\ p \in inside
<1> USE DEF JournalIInv
<1>1. job[p] = "reconciling" /\ p \in inside /\ inside = {p} /\ todo[p] \subseteq Pending(journal)
  BY DEF LockHeld, LockedJobs
<1>2. PICK i \in todo[p] : TRUE
  OBVIOUS
<1>3. Pending(journal) = {i} /\ i \in Intents(journal) /\ Min({i}) = i
  BY <1>1, <1>2, LastIsPending
<1>4. todo[p] = {i}
  BY <1>1, <1>2, <1>3
<1> QED BY <1>1, <1>3, <1>4

(* The attempts of two different intents are different.                    *)
LEMMA UsedByOne ==
    ASSUME JournalIInv, NEW i \in Intents(journal)
    PROVE  /\ IsUsed(journal[i].attempt)
           /\ IntentOf(journal[i].attempt) = i
           /\ IsPending(journal[i].attempt) <=> i \in Pending(journal)
           /\ TaskOf(journal[i].attempt) = journal[i].task
<1>1. \A k \in Intents(journal) : journal[k].attempt = journal[i].attempt <=> k = i
  BY DEF JournalIInv, AttemptsNumbered
<1>2. IntentOf(journal[i].attempt) = i
  BY <1>1 DEF IntentOf
<1>3. (CHOOSE k \in Intents(journal) : journal[k].attempt = journal[i].attempt) = i
  BY <1>1
<1>4. IsPending(journal[i].attempt) <=> i \in Pending(journal)
  BY <1>1 DEF IsPending, Pending
<1> QED BY <1>2, <1>3, <1>4 DEF IsUsed, TaskOf

-----------------------------------------------------------------------------
(* Steps of drivers and of the chain: the records and the processes stay.  *)

(* Attempt a alone moves, to a state that its records allow.               *)
AttemptMoves(a) ==
    /\ UNCHANGED <<mutexVars, journal, process>>
    /\ driver' \in [Attempts -> {"none", "running", "announced", "over"}]
    /\ log' \in [Attempts -> {"none", "empty", "leaf", "rejected"}]
    /\ chain' \in [Attempts -> {"absent", "pending", "included", "dropped"}]
    /\ \A b \in Attempts : b # a => driver'[b] = driver[b] /\ log'[b] = log[b] /\ chain'[b] = chain[b]

LEMMA AttemptMovesKeeps ==
    ASSUME JournalIInv, NEW a \in Attempts, AttemptMoves(a),
           current' \in Tasks \cup {NoTask},
           driver[a] # "none", driver'[a] # "none",
           driver'[a] \in {"running", "announced"} => chain'[a] = "absent",
           driver'[a] \in {"running", "announced"} \/ chain'[a] = "pending" => IsPending(a),
           log'[a] = "rejected" => driver'[a] = "over" /\ chain'[a] = "absent",
           IsLost(a) => driver'[a] = "over" /\ chain'[a] = "absent",
           chain'[a] = "included" =>
               \/ chain[a] = "included"
               \/ \E i \in Pending(journal) :
                      /\ journal[i].attempt = a
                      /\ \A k \in Intents(journal) :
                           journal[k].task = journal[i].task /\ chain[journal[k].attempt] = "included"
                              => k = i
    PROVE  JournalIInv'
<1> USE DEF JournalIInv
<1>1. /\ UNCHANGED <<alive, inside, journal, job, task, todo>>
      /\ Pending(journal') = Pending(journal) /\ Intents(journal') = Intents(journal)
      /\ \A u : (IsIncluded(u))' = IsIncluded(u)
      /\ \A i : (ResultsOf(i))' = ResultsOf(i)
      /\ \A b : (IsUsed(b))' = IsUsed(b) /\ (IsPending(b))' = IsPending(b)
  BY JournalStays DEF AttemptMoves, mutexVars, process
<1>2. \A b \in Attempts : b # a => driver'[b] = driver[b] /\ log'[b] = log[b] /\ chain'[b] = chain[b]
  BY DEF AttemptMoves
<1>3. JournalTypeOK'
  BY <1>1 DEF JournalTypeOK, AttemptMoves
<1>4. LockHeld'
  BY <1>1 DEF LockHeld
<1>5. \A i \in Intents(journal) : journal[i].attempt \in Attempts
  BY IntentTypes
<1>6. JobsMean'
  <2> SUFFICES ASSUME NEW q \in Executors
               PROVE  /\ job[q] \in {"scanned", "proving"} => task[q] \in Tasks
                      /\ job[q] = "proving" => Pending(journal) = {} /\ ~IsIncluded(task[q])
                      /\ job[q] \in {"intended", "waiting", "answered"} =>
                             \E i \in Pending(journal) : (WorksOn(q, i))'
    BY <1>1 DEF JobsMean
  <2>1. /\ job[q] \in {"scanned", "proving"} => task[q] \in Tasks
        /\ job[q] = "proving" => Pending(journal) = {} /\ ~IsIncluded(task[q])
    BY DEF JobsMean
  <2>2. ASSUME NEW i \in Pending(journal), WorksOn(q, i) PROVE (WorksOn(q, i))'
    BY <1>1, <1>2, <1>5, <2>2 DEF WorksOn, Pending
  <2>3. job[q] \in {"intended", "waiting", "answered"} => \E i \in Pending(journal) : WorksOn(q, i)
    BY DEF JobsMean
  <2> QED BY <2>1, <2>2, <2>3
<1>7. AttemptsNumbered' /\ OneAtATime' /\ DoneIsDone'
  BY <1>1, RecordsStay
<1>8. \A b \in Attempts : IsLost(b) => (IsLost(b))'
  BY <1>2 DEF IsLost
<1>9. WireAgrees'
  <2> SUFFICES ASSUME NEW b \in Attempts
               PROVE  /\ driver'[b] \in {"none", "running", "announced"} => chain'[b] = "absent"
                      /\ driver'[b] \in {"running", "announced"} \/ chain'[b] = "pending" => IsPending(b)
                      /\ ~IsUsed(b) => driver'[b] = "none"
                      /\ log'[b] = "rejected" => (IsLost(b))'
    BY <1>1 DEF WireAgrees
  <2>1. CASE b = a
    BY <2>1 DEF WireAgrees, IsLost
  <2>2. CASE b # a
    BY <1>2, <2>2 DEF WireAgrees, IsLost
  <2> QED BY <2>1, <2>2
<1>10. RefusalsAreTrue'
  BY <1>1, <1>5, <1>8 DEF RefusalsAreTrue, Pending
<1>11. \A i \in Intents(journal) : journal[i].attempt = a \/ chain'[journal[i].attempt] = chain[journal[i].attempt]
  BY <1>2, <1>5
<1>12. \A i, k \in Intents(journal) : journal[i].attempt = journal[k].attempt => i = k
  BY DEF AttemptsNumbered
<1>13. InclusionsAreKnown'
  <2>1. ASSUME NEW i \in Intents(journal) \ Pending(journal),
               chain'[journal[i].attempt] = "included"
        PROVE  IsIncluded(journal[i].task)
    <3>1. chain[journal[i].attempt] = "included"
      BY <1>11, <1>12, <2>1 DEF Pending
    <3> QED BY <2>1, <3>1 DEF InclusionsAreKnown
  <2>2. ASSUME NEW i \in Intents(journal), NEW k \in Intents(journal),
               journal[i].task = journal[k].task,
               chain'[journal[i].attempt] = "included", chain'[journal[k].attempt] = "included"
        PROVE  i = k
    <3>1. CASE chain[journal[i].attempt] = "included" /\ chain[journal[k].attempt] = "included"
      BY <2>2, <3>1 DEF InclusionsAreKnown
    <3>2. CASE chain[journal[i].attempt] # "included" /\ chain[journal[k].attempt] = "included"
      BY <1>11, <1>12, <2>2, <3>2 DEF Pending
    <3>3. CASE chain[journal[i].attempt] = "included" /\ chain[journal[k].attempt] # "included"
      BY <1>11, <1>12, <2>2, <3>3 DEF Pending
    <3>4. CASE chain[journal[i].attempt] # "included" /\ chain[journal[k].attempt] # "included"
      BY <1>11, <1>12, <2>2, <3>4
    <3> QED BY <3>1, <3>2, <3>3, <3>4
  <2>3. \A i \in Intents(journal) : journal'[i] = journal[i]
    BY <1>1
  <2> QED BY <1>1, <2>1, <2>2, <2>3 DEF InclusionsAreKnown
<1> QED BY <1>3, <1>4, <1>6, <1>7, <1>9, <1>10, <1>13

(* What an attempt may do when its driver is up or its broadcast waits.    *)
LEMMA LiveIsPending ==
    ASSUME JournalIInv, NEW a \in Attempts,
           driver[a] \in {"running", "announced"} \/ chain[a] = "pending"
    PROVE  /\ IsPending(a) /\ driver[a] # "none"
           /\ driver \in [Attempts -> {"none", "running", "announced", "over"}]
           /\ log \in [Attempts -> {"none", "empty", "leaf", "rejected"}]
           /\ chain \in [Attempts -> {"absent", "pending", "included", "dropped"}]
           /\ driver[a] \in {"running", "announced"} => chain[a] = "absent" /\ log[a] # "rejected"
           /\ log[a] = "rejected" => chain[a] = "absent"
           /\ current \in Tasks \cup {NoTask}
BY DEF JournalIInv, JournalTypeOK, WireAgrees, IsLost

LEMMA DriverKeeps ==
    ASSUME JournalIInv, NEW a \in Attempts, Driver(a)
    PROVE  JournalIInv'
<1>1. driver[a] \in {"running", "announced"}
  BY DEF Driver, Reject, Announce, Transmit, Kill, Drive
<1>2. /\ IsPending(a) /\ chain[a] = "absent" /\ log[a] # "rejected"
      /\ driver \in [Attempts -> {"none", "running", "announced", "over"}]
      /\ log \in [Attempts -> {"none", "empty", "leaf", "rejected"}]
      /\ chain \in [Attempts -> {"absent", "pending", "included", "dropped"}]
      /\ current \in Tasks \cup {NoTask}
  BY <1>1, LiveIsPending
<1>3. CASE Reject(a)
  <2>1. AttemptMoves(a) /\ driver'[a] = "over" /\ chain' = chain /\ current' = current
    BY <1>2, <1>3 DEF Reject, Drive, AttemptMoves
  <2> QED BY <1>1, <1>2, <2>1, AttemptMovesKeeps
<1>4. CASE Announce(a)
  <2>1. /\ AttemptMoves(a) /\ driver'[a] = "announced" /\ log'[a] = "leaf" /\ chain' = chain
        /\ current' = current
    BY <1>2, <1>4 DEF Announce, Drive, AttemptMoves
  <2>2. ~IsLost(a)
    BY <1>1 DEF IsLost
  <2> QED BY <1>1, <1>2, <2>1, <2>2, AttemptMovesKeeps
<1>5. CASE Transmit(a)
  <2>1. /\ AttemptMoves(a) /\ driver'[a] = "over" /\ log' = log /\ current' = current
        /\ chain'[a] \in {"absent", "pending"}
    BY <1>2, <1>5 DEF Transmit, Drive, AttemptMoves, files
  <2>2. ~IsLost(a)
    BY <1>1 DEF IsLost
  <2> QED BY <1>1, <1>2, <2>1, <2>2, AttemptMovesKeeps
<1>6. CASE Kill(a)
  <2>1. /\ AttemptMoves(a) /\ driver'[a] = "over" /\ log' = log /\ chain' = chain
        /\ current' = current
    BY <1>2, <1>6 DEF Kill, AttemptMoves, files
  <2> QED BY <1>1, <1>2, <2>1, AttemptMovesKeeps
<1> QED BY <1>3, <1>4, <1>5, <1>6 DEF Driver

(* A broadcast that waits is included only if no other attempt at its task *)
(* was: such a task is done, and has no pending intent.                    *)
LEMMA ChainKeeps ==
    ASSUME JournalIInv, NEW a \in Attempts, Include(a) \/ Drop(a)
    PROVE  JournalIInv'
<1> USE DEF JournalIInv
<1>1. chain[a] = "pending"
  BY DEF Include, Drop
<1>2. /\ IsPending(a) /\ log[a] # "rejected" /\ driver[a] # "none"
      /\ driver \in [Attempts -> {"none", "running", "announced", "over"}]
      /\ log \in [Attempts -> {"none", "empty", "leaf", "rejected"}]
      /\ chain \in [Attempts -> {"absent", "pending", "included", "dropped"}]
      /\ driver[a] \notin {"running", "announced"}
      /\ current \in Tasks \cup {NoTask}
  BY <1>1, LiveIsPending
<1>3. AttemptMoves(a) /\ log' = log /\ driver' = driver /\ current' \in Tasks \cup {NoTask}
      /\ chain'[a] \in {"included", "dropped"}
  BY <1>2 DEF Include, Drop, AttemptMoves, files
<1>4. PICK i \in Pending(journal) : journal[i].attempt = a
  BY <1>2 DEF IsPending
<1>5. i \in Intents(journal) /\ Pending(journal) = {i}
  BY LastIsPending
<1>6. ASSUME NEW k \in Intents(journal),
             journal[k].task = journal[i].task, chain[journal[k].attempt] = "included"
      PROVE  k = i
  <2>1. SUFFICES ASSUME k # i PROVE FALSE
    OBVIOUS
  <2>2. IsIncluded(journal[k].task)
    BY <1>5, <1>6, <2>1 DEF InclusionsAreKnown
  <2> QED BY <1>6, <2>2 DEF DoneIsDone
<1>7. ~IsLost(a)
  BY <1>1 DEF IsLost
<1> QED BY <1>1, <1>2, <1>3, <1>4, <1>6, <1>7, AttemptMovesKeeps

LEMMA EvolveKeeps ==
    ASSUME JournalIInv, Evolve
    PROVE  JournalIInv'
<1> USE DEF JournalIInv
<1>1. /\ UNCHANGED <<alive, inside, journal, log, job, task, todo, driver, chain>>
      /\ current' \in Tasks \cup {NoTask}
  BY DEF Evolve, mutexVars, files, process
<1>2. JournalTypeOK'
  BY <1>1 DEF JournalTypeOK
<1>3. LockHeld'
  BY <1>1 DEF LockHeld
<1>4. JobsMean'
  BY <1>1, JournalStays DEF JobsMean, WorksOn
<1> QED BY <1>1, <1>2, <1>3, <1>4, RecordsStay, WireStays

LEMMA PowerLossKeeps ==
    ASSUME JournalIInv, PowerLoss
    PROVE  JournalIInv'
<1> USE DEF JournalIInv
<1>1. /\ alive' = {} /\ inside' = {}
      /\ job' = [p \in Executors |-> "idle"]
      /\ task' = [p \in Executors |-> NoTask]
      /\ todo' = [p \in Executors |-> {}]
      /\ driver' = [a \in Attempts |-> IF driver[a] = "none" THEN "none" ELSE "over"]
      /\ UNCHANGED <<journal, chain, current>>
  BY DEF PowerLoss
<1>2. log' \in [Attempts -> {"none", "empty", "leaf", "rejected"}]
      /\ \A a \in Attempts : log'[a] = log[a] \/ log'[a] = "empty"
  BY DEF PowerLoss, JournalTypeOK
<1>3. JournalTypeOK'
  BY <1>1, <1>2 DEF JournalTypeOK, Jobs
<1>4. LockHeld' /\ JobsMean'
  BY <1>1 DEF LockHeld, JobsMean, LockedJobs
<1>5. \A a \in Attempts : IsLost(a) => (IsLost(a))'
  BY <1>1 DEF IsLost
<1>6. \A i \in Intents(journal) : journal[i].attempt \in Attempts
  BY IntentTypes
<1>7. WireAgrees'
  BY <1>1, <1>2, <1>5, JournalStays DEF WireAgrees, IsLost, JournalTypeOK
<1>8. RefusalsAreTrue'
  <2>1. /\ Pending(journal') = Pending(journal)
        /\ \A i : (ResultsOf(i))' = ResultsOf(i)
    BY <1>1, JournalStays
  <2> QED BY <1>1, <1>5, <1>6, <2>1 DEF RefusalsAreTrue, Pending
<1>9. InclusionsAreKnown'
  BY <1>1, JournalStays DEF InclusionsAreKnown
<1> QED BY <1>1, <1>3, <1>4, <1>7, <1>8, <1>9, RecordsStay

(* The driver of the attempt that was just recorded starts.                *)
LEMMA SpawnKeeps ==
    ASSUME JournalIInv, NEW p \in Executors, Spawn(p)
    PROVE  JournalIInv'
<1> USE DEF JournalIInv
<1> DEFINE a == journal[LastIntent].attempt
<1>1. job[p] = "intended"
  BY DEF Spawn
<1>2. /\ Pending(journal) = {LastIntent} /\ LastIntent \in Intents(journal)
      /\ journal[LastIntent].task = task[p] /\ driver[a] = "none" /\ p \in inside /\ inside = {p}
      /\ a \in Attempts
  BY <1>1, WorkIsLast DEF WorksOn
<1>3. IsPending(a) /\ chain[a] = "absent"
  BY <1>2 DEF IsPending, WireAgrees
<1>4. PICK state \in {"running", "over"} : driver' = [driver EXCEPT ![a] = state]
  BY DEF Spawn
<1>5. /\ log' = [log EXCEPT ![a] = "empty"]
      /\ job' = [job EXCEPT ![p] = "waiting"]
      /\ UNCHANGED <<alive, inside, journal, task, todo, chain, current>>
  BY DEF Spawn, mutexVars
<1> HIDE DEF a
<1>6. JournalTypeOK'
  BY <1>2, <1>4, <1>5 DEF JournalTypeOK, Jobs
<1>7. job'[p] = "waiting" /\ \A q \in Executors : q # p => job'[q] = job[q] /\ q \notin inside
  BY <1>2, <1>5 DEF JournalTypeOK
<1>8. LockHeld'
  BY <1>1, <1>2, <1>5, <1>7 DEF LockHeld, LockedJobs
<1>9. JobsMean'
  <2>1. \A q \in Executors : q # p => job[q] \notin LockedJobs
    BY <1>7 DEF LockHeld
  <2>2. (WorksOn(p, LastIntent))' /\ LastIntent' \in Pending(journal')
    BY <1>2, <1>5, <1>7 DEF WorksOn, LastIntent
  <2>3. \A u : (IsIncluded(u))' = IsIncluded(u)
    BY <1>5, JournalStays
  <2>4. ASSUME NEW q \in Executors, q # p
        PROVE  /\ job'[q] \in {"scanned", "proving"} => task'[q] \in Tasks
               /\ job'[q] \notin {"proving", "intended", "waiting", "answered"}
    BY <1>5, <1>7, <2>1, <2>4 DEF JobsMean, LockedJobs
  <2> QED BY <1>7, <2>2, <2>4 DEF JobsMean
<1>10. \A b \in Attempts : b # a => log'[b] = log[b] /\ driver'[b] = driver[b]
  BY <1>4, <1>5 DEF JournalTypeOK
<1>11. log'[a] = "empty" /\ driver'[a] = state
  BY <1>2, <1>4, <1>5 DEF JournalTypeOK
<1>12. \A b \in Attempts : IsLost(b) => (IsLost(b))'
  BY <1>2, <1>5, <1>10 DEF IsLost
<1>13. WireAgrees'
  BY <1>2, <1>3, <1>5, <1>10, <1>11, <1>12, JournalStays, UsedByOne DEF WireAgrees, IsPending, IsUsed, Pending
<1>14. RefusalsAreTrue'
  <2>1. /\ Pending(journal') = Pending(journal)
        /\ \A i : (ResultsOf(i))' = ResultsOf(i)
    BY <1>5, JournalStays
  <2> QED BY <1>2, <1>5, <1>12, <2>1 DEF RefusalsAreTrue, a
<1>15. InclusionsAreKnown'
  BY <1>5, JournalStays DEF InclusionsAreKnown
<1> QED BY <1>5, <1>6, <1>8, <1>9, <1>13, <1>14, <1>15, RecordsStay

-----------------------------------------------------------------------------
(* Steps that write.                                                       *)

(* The recorded outcome of an attempt is that of one of its results.       *)
LEMMA OutcomeIsAResult ==
    ASSUME JournalTypeOK, NEW i \in Intents(journal), ResultsOf(i) # {}
    PROVE  \E j \in ResultsOf(i) : RecordedOutcome(i) = journal[j].outcome
<1>1. Len(journal) \in Nat /\ ResultsOf(i) \in SUBSET (1 .. Len(journal))
  BY DEF JournalTypeOK, ResultsOf
<1>2. \E j \in ResultsOf(i) : \A k \in ResultsOf(i) : k <= j
  BY <1>1, HasGreatest
<1>3. (CHOOSE j \in ResultsOf(i) : \A k \in ResultsOf(i) : k <= j) \in ResultsOf(i)
  BY <1>2
<1> QED BY <1>3 DEF RecordedOutcome

(* A refusal that was recorded of a pending attempt is true.               *)
LEMMA RecordedRefusal ==
    ASSUME JournalIInv, NEW i \in Pending(journal), RecordedOutcome(i) = "not-submitted"
    PROVE  IsLost(journal[i].attempt)
<1> USE DEF JournalIInv
<1>1. ResultsOf(i) # {} /\ i \in Intents(journal)
  BY DEF RecordedOutcome, Pending
<1>2. PICK j \in ResultsOf(i) : RecordedOutcome(i) = journal[j].outcome
  BY <1>1, OutcomeIsAResult
<1> QED BY <1>2 DEF RefusalsAreTrue

(* p, which holds the lock, writes the verdict r on the pending attempt i. *)
VerdictMoves(p, i, r) ==
    /\ inside = {p} /\ Pending(journal) = {i} /\ i \in Intents(journal)
    /\ r \in {NotSubmitted(journal[i].task), Included(journal[i].task)}
    /\ r = NotSubmitted(journal[i].task) => IsLost(journal[i].attempt)
    /\ r = Included(journal[i].task) => chain[journal[i].attempt] = "included"
    /\ Write(r)
    /\ UNCHANGED <<alive, log, world>>
    /\ \E to \in {"reconciling", "idle"}, t \in Tasks \cup {NoTask} :
           /\ job' = [job EXCEPT ![p] = to]
           /\ task' = [task EXCEPT ![p] = t]
           /\ inside' = IF to = "idle" THEN {} ELSE {p}
    /\ todo' = [todo EXCEPT ![p] = {}]

LEMMA VerdictKeeps ==
    ASSUME JournalIInv, NEW p \in Executors, NEW i, NEW r, VerdictMoves(p, i, r)
    PROVE  JournalIInv' /\ Pending(journal') = {}
<1> USE DEF JournalIInv
<1> DEFINE t == journal[i].task
           a == journal[i].attempt
<1>1. /\ i \in Intents(journal) /\ Pending(journal) = {i} /\ inside = {p}
      /\ t \in Tasks /\ a \in Attempts /\ r \in {NotSubmitted(t), Included(t)} /\ Write(r)
      /\ r = NotSubmitted(t) => IsLost(a)
      /\ r = Included(t) => chain[a] = "included"
      /\ UNCHANGED <<alive, log, driver, chain, current>>
  BY IntentTypes DEF VerdictMoves, world
<1> HIDE DEF t
<1>2. /\ journal' \in Seq(Records)
      /\ Intents(journal') = Intents(journal)
      /\ Pending(journal') = {k \in Pending(journal) : journal[k].task # t}
      /\ \A k \in Intents(journal) : journal'[k] = journal[k]
      /\ \A u \in Tasks : (IsIncluded(u))' <=> IsIncluded(u) \/ r = Included(u)
      /\ \A j \in DOMAIN journal : journal'[j] = journal[j] /\ j \in DOMAIN journal'
  BY <1>1, VerdictWritten
<1>3. Pending(journal') = {}
  BY <1>1, <1>2 DEF t
<1> USE DEF t
<1>4. PICK to \in {"reconciling", "idle"}, t2 \in Tasks \cup {NoTask} :
           /\ job' = [job EXCEPT ![p] = to]
           /\ task' = [task EXCEPT ![p] = t2]
           /\ inside' = IF to = "idle" THEN {} ELSE {p}
  BY DEF VerdictMoves
<1>5. todo' = [todo EXCEPT ![p] = {}]
  BY DEF VerdictMoves
<1>6. JournalTypeOK'
  BY <1>1, <1>2, <1>4, <1>5 DEF JournalTypeOK, Jobs
<1>7. /\ job'[p] = to /\ todo'[p] = {}
      /\ \A q \in Executors : q # p => /\ job'[q] = job[q] /\ todo'[q] = todo[q] /\ task'[q] = task[q]
                                       /\ job[q] \notin LockedJobs
  BY <1>1, <1>4, <1>5 DEF JournalTypeOK, LockHeld
<1>8. \A q \in Executors : todo'[q] = {}
  BY <1>7 DEF LockHeld, LockedJobs
<1>9. LockHeld'
  <2>1. \A q, s \in inside' : q = s
    BY <1>4
  <2>2. ASSUME NEW q \in Executors PROVE job'[q] \in LockedJobs <=> q \in inside'
    BY <1>4, <1>7 DEF LockedJobs
  <2> QED BY <1>8, <2>1, <2>2 DEF LockHeld
<1>10. AttemptsNumbered'
  BY <1>2 DEF AttemptsNumbered
<1>11. OneAtATime'
  <2> SUFFICES ASSUME NEW k \in Intents(journal), NEW j \in Intents(journal), Resolves(journal', k, j)
               PROVE  \E l \in DOMAIN journal' : l < j /\ Resolves(journal', k, l)
    BY <1>2, <1>3 DEF OneAtATime
  <2>1. Resolves(journal, k, j)
    BY <1>2 DEF Resolves
  <2>2. PICK l \in DOMAIN journal : l < j /\ Resolves(journal, k, l)
    BY <2>1 DEF OneAtATime
  <2>3. Resolves(journal', k, l)
    BY <1>2, <2>2 DEF Resolves
  <2> QED BY <1>2, <2>2, <2>3
<1>12. DoneIsDone' /\ RefusalsAreTrue'
  BY <1>3 DEF DoneIsDone, RefusalsAreTrue
<1>13. JobsMean'
  <2> SUFFICES ASSUME NEW q \in Executors
               PROVE  /\ job'[q] \in {"scanned", "proving"} => task'[q] \in Tasks
                      /\ job'[q] \notin {"proving", "intended", "waiting", "answered"}
    BY DEF JobsMean
  <2>1. CASE q = p
    BY <1>7, <2>1
  <2>2. CASE q # p
    BY <1>7, <2>2 DEF LockedJobs, JobsMean
  <2> QED BY <2>1, <2>2
<1>14. WireAgrees'
  <2> SUFFICES ASSUME NEW b \in Attempts
               PROVE  /\ driver[b] \in {"none", "running", "announced"} => chain[b] = "absent"
                      /\ ~(driver[b] \in {"running", "announced"} \/ chain[b] = "pending")
                      /\ (~IsUsed(b))' => driver[b] = "none"
                      /\ log[b] = "rejected" => IsLost(b)
    BY <1>1 DEF WireAgrees, IsLost
  <2>1. (IsUsed(b))' = IsUsed(b)
    BY <1>2 DEF IsUsed
  <2>2. b # a => ~IsPending(b)
    BY <1>1 DEF IsPending
  <2>3. IsLost(a) \/ chain[a] = "included"
    BY <1>1
  <2> QED BY <2>1, <2>2, <2>3 DEF WireAgrees, IsLost
<1>15. InclusionsAreKnown'
  <2>1. ASSUME NEW k \in Intents(journal), chain[journal[k].attempt] = "included"
        PROVE  (IsIncluded(journal[k].task))'
    <3>1. CASE k = i
      BY <1>1, <1>2, <2>1, <3>1 DEF IsLost
    <3>2. CASE k # i
      <4>1. IsIncluded(journal[k].task) /\ journal[k].task \in Tasks
        BY <1>1, <2>1, <3>2, IntentTypes DEF InclusionsAreKnown
      <4> QED BY <1>2, <4>1
    <3> QED BY <3>1, <3>2
  <2>2. \A k \in Intents(journal) : chain[journal[k].attempt] = "included" => (IsIncluded(journal[k].task))'
    BY <2>1
  <2> QED BY <1>1, <1>2, <2>2 DEF InclusionsAreKnown
<1> QED BY <1>3, <1>6, <1>9, <1>10, <1>11, <1>12, <1>13, <1>14, <1>15

(* Judging a pending attempt writes a true verdict, or nothing.            *)
LEMMA JudgeWrites ==
    ASSUME JournalIInv, NEW p \in Executors, Judge(p)
    PROVE  \/ \E i, r : VerdictMoves(p, i, r)
           \/ ProcessMoves(p, "reconciling", task[p], {}) /\ UNCHANGED mutexVars
<1> USE DEF JournalIInv
<1> DEFINE i == Min(todo[p])
           a == journal[i].attempt
           t == journal[i].task
           outcome == RecordedOutcome(i)
           verdict == IF outcome = "not-submitted" THEN outcome ELSE Verdict(a, outcome)
<1>1. /\ todo[p] = {i} /\ Pending(journal) = {i} /\ i \in Intents(journal)
      /\ job[p] = "reconciling" /\ inside = {p} /\ p \in inside
  BY JudgedIsLast DEF Judge
<1>2. a \in Attempts /\ task[p] \in Tasks \cup {NoTask}
  BY <1>1, IntentTypes DEF JournalTypeOK
<1>3. todo' = [todo EXCEPT ![p] = {}] /\ UNCHANGED <<alive, inside, log, job, task, driver, chain, current>>
  BY <1>1 DEF Judge, mutexVars, world
<1>4. job' = [job EXCEPT ![p] = "reconciling"] /\ task' = [task EXCEPT ![p] = task[p]]
  BY <1>1, <1>3 DEF JournalTypeOK
<1>5. journal' = CASE verdict = "not-submitted" -> Append(journal, NotSubmitted(t))
                   [] verdict = "included"      -> Append(journal, Included(t))
                   [] OTHER                     -> journal
  BY DEF Judge
<1>6. ASSUME NEW r \in {NotSubmitted(t), Included(t)}, Write(r),
             r = NotSubmitted(t) => IsLost(a), r = Included(t) => chain[a] = "included"
      PROVE  \E k, s : VerdictMoves(p, k, s)
  <2>1. VerdictMoves(p, i, r)
    BY <1>1, <1>2, <1>3, <1>4, <1>6 DEF VerdictMoves, world
  <2> QED BY <2>1
<1>7. NotSubmitted(t) # Included(t)
  BY DEF NotSubmitted, Included
<1>8. CASE verdict = "not-submitted"
  <2>1. outcome = "not-submitted" \/ log[a] = "rejected"
    BY <1>8 DEF Verdict
  <2>2. IsLost(a)
    BY <1>1, <1>2, <2>1, RecordedRefusal DEF WireAgrees
  <2>3. Write(NotSubmitted(t))
    BY <1>5, <1>8 DEF Write
  <2> HIDE DEF t, a
  <2> QED BY <1>6, <1>7, <2>2, <2>3
<1>9. CASE verdict = "included"
  <2>1. chain[a] = "included"
    BY <1>9 DEF Verdict
  <2>2. Write(Included(t))
    BY <1>5, <1>9 DEF Write
  <2> HIDE DEF t, a
  <2> QED BY <1>6, <1>7, <2>1, <2>2
<1>10. CASE verdict \notin {"not-submitted", "included"}
  <2>1. journal' = journal
    BY <1>5, <1>10
  <2> QED BY <1>3, <1>4, <2>1 DEF ProcessMoves, files, world, mutexVars
<1> QED BY <1>8, <1>9, <1>10

(* Concluding an attempt writes a true verdict, or leaves it pending.      *)
LEMMA ConcludeWrites ==
    ASSUME JournalIInv, NEW p \in Executors, Conclude(p)
    PROVE  \/ \E i, r : VerdictMoves(p, i, r)
           \/ ProcessMoves(p, "idle", NoTask, {}) /\ alive' = alive /\ inside' = inside \ {p}
<1> USE DEF JournalIInv
<1> DEFINE i == LastIntent
           a == journal[i].attempt
           t == journal[i].task
           outcome == RecordedOutcome(i)
<1>1. job[p] = "answered" /\ Leave(p) /\ Rest(p) /\ UNCHANGED <<log, world>>
  BY DEF Conclude
<1>2. /\ Pending(journal) = {i} /\ i \in Intents(journal) /\ t = task[p]
      /\ p \in inside /\ inside = {p} /\ a \in Attempts
  BY <1>1, WorkIsLast
<1>3. /\ todo' = [todo EXCEPT ![p] = {}] /\ alive' = alive /\ inside' = {} /\ inside' = inside \ {p}
      /\ job' = [job EXCEPT ![p] = "idle"] /\ task' = [task EXCEPT ![p] = NoTask]
  BY <1>1, <1>2 DEF Leave, Rest
<1>4. ASSUME NEW r \in {NotSubmitted(t), Included(t)}, Write(r),
             r = NotSubmitted(t) => IsLost(a), r = Included(t) => chain[a] = "included"
      PROVE  \E k, s : VerdictMoves(p, k, s)
  <2>1. VerdictMoves(p, i, r)
    BY <1>1, <1>2, <1>3, <1>4 DEF VerdictMoves
  <2> QED BY <2>1
<1>5. NotSubmitted(t) # Included(t)
  BY DEF NotSubmitted, Included
<1>6. \/ outcome = "not-submitted" /\ Write(NotSubmitted(t))
      \/ chain[a] = "included" /\ Write(Included(t))
      \/ UNCHANGED journal
  BY <1>2 DEF Conclude
<1>7. CASE outcome = "not-submitted" /\ Write(NotSubmitted(t))
  <2>1. IsLost(a)
    BY <1>2, <1>7, RecordedRefusal
  <2> HIDE DEF t, a
  <2> QED BY <1>4, <1>5, <1>7, <2>1
<1>8. CASE chain[a] = "included" /\ Write(Included(t))
  <2> HIDE DEF t, a
  <2> QED BY <1>4, <1>5, <1>8
<1>9. CASE UNCHANGED journal
  BY <1>1, <1>3, <1>9 DEF ProcessMoves, files
<1> QED BY <1>6, <1>7, <1>8, <1>9

LEMMA JudgeKeeps ==
    ASSUME JournalIInv, NEW p \in Executors, Judge(p) \/ Conclude(p)
    PROVE  JournalIInv'
<1>1. /\ alive \subseteq Executors /\ inside \subseteq alive
      /\ task[p] \in Tasks \cup {NoTask} /\ NoTask \in Tasks \cup {NoTask}
  BY DEF JournalIInv, JournalTypeOK
<1>2. CASE \E i, r : VerdictMoves(p, i, r)
  BY <1>2, VerdictKeeps
<1>3. CASE Judge(p) /\ ProcessMoves(p, "reconciling", task[p], {}) /\ UNCHANGED mutexVars
  <2>1. inside = {p} /\ inside' = inside /\ alive' = alive
    BY <1>3, JudgedIsLast DEF Judge, mutexVars
  <2> QED BY <1>1, <1>3, <2>1, ProcessMovesKeeps DEF Jobs, LockedJobs
<1>4. CASE ProcessMoves(p, "idle", NoTask, {}) /\ alive' = alive /\ inside' = inside \ {p}
  BY <1>1, <1>4, ProcessMovesKeeps DEF Jobs, LockedJobs
<1> QED BY <1>2, <1>3, <1>4, JudgeWrites, ConcludeWrites

(* What the driver's log says is recorded: a refusal of an attempt that    *)
(* can no longer reach the chain.                                          *)
LEMMA RecordResultKeeps ==
    ASSUME JournalIInv, NEW p \in Executors, RecordResult(p)
    PROVE  /\ JournalIInv'
           /\ \E o \in {"not-submitted", "leaf", "unknown"} : Write(Result(task[p], o))
           /\ UNCHANGED world /\ task[p] \in Tasks
<1> USE DEF JournalIInv
<1> DEFINE i == LastIntent
           a == journal[i].attempt
           o == Outcome(a)
<1>1. /\ job[p] = "waiting" /\ Write(Result(task[p], o)) /\ driver[a] = "over"
      /\ job' = [job EXCEPT ![p] = "answered"]
      /\ UNCHANGED <<alive, inside, log, task, todo, driver, chain, current>>
  BY DEF RecordResult, mutexVars, world
<1>2. /\ Pending(journal) = {i} /\ i \in Intents(journal) /\ journal[i].task = task[p]
      /\ p \in inside /\ inside = {p} /\ todo[p] = {} /\ task[p] \in Tasks /\ a \in Attempts
  BY <1>1, WorkIsLast
<1>3. o \in {"not-submitted", "leaf", "unknown"} /\ (o = "not-submitted" => IsLost(a))
  BY <1>2 DEF Outcome, WireAgrees
<1> HIDE DEF i, o
<1>4. /\ journal' \in Seq(Records)
      /\ Intents(journal') = Intents(journal)
      /\ Pending(journal') = Pending(journal)
      /\ \A k \in Intents(journal) : journal'[k] = journal[k]
      /\ \A u \in Tasks : (IsIncluded(u))' = IsIncluded(u)
      /\ \A k \in Intents(journal) : \A j \in (ResultsOf(k))' :
             \/ j \in ResultsOf(k) /\ journal'[j] = journal[j]
             \/ journal[k].task = task[p] /\ journal'[j].outcome = o
      /\ \A k, j : Resolves(journal', k, j) /\ k \in Intents(journal) /\ j \in DOMAIN journal'
                  <=> Resolves(journal, k, j) /\ k \in Intents(journal) /\ j \in DOMAIN journal
  BY <1>1, <1>2, <1>3, ResultWritten
<1>5. JournalTypeOK'
  BY <1>1, <1>4 DEF JournalTypeOK, Jobs
<1>6. job'[p] = "answered" /\ \A q \in Executors : q # p => job'[q] = job[q] /\ job[q] \notin LockedJobs
  BY <1>1, <1>2 DEF JournalTypeOK, LockHeld
<1>7. LockHeld'
  BY <1>1, <1>2, <1>4, <1>6 DEF LockHeld, LockedJobs
<1>8. AttemptsNumbered'
  BY <1>4 DEF AttemptsNumbered
<1>9. OneAtATime'
  <2>1. \A k \in Pending(journal'), l \in Intents(journal') : l <= k
    BY <1>4 DEF OneAtATime
  <2>2. ASSUME NEW k \in Intents(journal), NEW j \in Intents(journal), Resolves(journal', k, j)
        PROVE  \E l \in DOMAIN journal' : l < j /\ Resolves(journal', k, l)
    <3>1. Resolves(journal, k, j)
      BY <1>4, <2>2 DEF Intents
    <3>2. PICK l \in DOMAIN journal : l < j /\ Resolves(journal, k, l)
      BY <3>1 DEF OneAtATime
    <3> QED BY <1>4, <3>2
  <2> QED BY <1>4, <2>1, <2>2 DEF OneAtATime
<1>10. DoneIsDone'
  BY <1>4, IntentTypes DEF DoneIsDone, Pending
<1>11. JobsMean'
  <2>1. \A k : k = i => (WorksOn(p, k))' /\ k \in Pending(journal')
    BY <1>1, <1>2, <1>4, <1>6 DEF WorksOn
  <2>2. ASSUME NEW q \in Executors, q # p
        PROVE  /\ job'[q] \in {"scanned", "proving"} => task'[q] \in Tasks
               /\ job'[q] \notin {"proving", "intended", "waiting", "answered"}
    BY <1>1, <1>6, <2>2 DEF JobsMean, LockedJobs
  <2> QED BY <1>6, <2>1, <2>2 DEF JobsMean
<1>12. \A b : (IsUsed(b))' = IsUsed(b) /\ (IsPending(b))' = IsPending(b)
  BY <1>4 DEF IsUsed, IsPending, Pending
<1>13. WireAgrees'
  BY <1>1, <1>12 DEF WireAgrees, IsLost
<1>14. RefusalsAreTrue'
  <2> SUFFICES ASSUME NEW k, k = i, NEW j \in (ResultsOf(k))', journal'[j].outcome = "not-submitted"
               PROVE  IsLost(a)
    BY <1>1, <1>2, <1>4 DEF RefusalsAreTrue, IsLost
  <2>1. \/ j \in ResultsOf(k) /\ journal[j].outcome = "not-submitted"
        \/ o = "not-submitted"
    BY <1>2, <1>4
  <2> QED BY <1>2, <1>3, <2>1 DEF RefusalsAreTrue
<1>15. InclusionsAreKnown'
  BY <1>1, <1>4, IntentTypes DEF InclusionsAreKnown
<1> QED BY <1>1, <1>2, <1>3, <1>5, <1>7, <1>8, <1>9, <1>10, <1>11, <1>13, <1>14, <1>15 DEF world

(* A new intent has a new attempt, of which nothing is on the wire.        *)
LEMMA IntendKeeps ==
    ASSUME JournalIInv, NEW p \in Executors, Intend(p)
    PROVE  /\ JournalIInv'
           /\ Pending(journal) = {} /\ task[p] \in Tasks /\ NextAttempt \in Attempts
           /\ Write(Intent(task[p], NextAttempt)) /\ UNCHANGED world
           /\ ~IsUsed(NextAttempt)
<1> USE DEF JournalIInv
<1> DEFINE n == Len(journal)
           a == NextAttempt
           t == task[p]
           count == Cardinality(Intents(journal))
<1>1. /\ job[p] = "proving" /\ a \in Attempts /\ Write(Intent(t, a))
      /\ job' = [job EXCEPT ![p] = "intended"]
      /\ UNCHANGED <<alive, inside, log, task, todo, driver, chain, current>>
  BY DEF Intend, mutexVars, world
<1>2. Pending(journal) = {} /\ ~IsIncluded(t) /\ t \in Tasks
  BY <1>1 DEF JobsMean
<1>3. p \in inside /\ inside = {p} /\ todo[p] = {}
  BY <1>1 DEF LockHeld, LockedJobs
<1>4. count \in Nat /\ IsFiniteSet(Intents(journal)) /\ a = count + 1
  BY IntentsFinite DEF NextAttempt
<1>5. \A i \in Intents(journal) : journal[i].attempt \in Nat /\ journal[i].attempt <= count
  BY IntentTypes DEF AttemptsNumbered, Attempts
<1>6. \A i \in Intents(journal) : journal[i].attempt # a
  BY <1>4, <1>5
<1>7. ~IsUsed(a) /\ driver[a] = "none" /\ chain[a] = "absent" /\ log[a] # "rejected"
  BY <1>1, <1>6 DEF IsUsed, WireAgrees, IsLost
<1>8. a = NextAttempt /\ t = task[p] /\ n = Len(journal)
  OBVIOUS
<1> HIDE DEF a, t, n
<1>9. /\ journal' \in Seq(Records)
      /\ n \in Nat /\ n + 1 \notin Intents(journal)
      /\ Intents(journal') = Intents(journal) \cup {n + 1}
      /\ Pending(journal') = {n + 1}
      /\ journal'[n + 1] = Intent(t, a)
      /\ DOMAIN journal' = 1 .. (n + 1)
      /\ \A i \in DOMAIN journal : journal'[i] = journal[i]
      /\ \A u \in Tasks : (IsIncluded(u))' = IsIncluded(u)
      /\ \A m : m = n + 1 => (ResultsOf(m))' = {}
  BY <1>1, <1>2, IntentWritten DEF n
<1>10. PICK m : m = n + 1
  OBVIOUS
<1>11. /\ m \in Nat /\ m \notin Intents(journal) /\ Intents(journal') = Intents(journal) \cup {m}
       /\ Pending(journal') = {m} /\ journal'[m] = Intent(t, a) /\ (ResultsOf(m))' = {}
       /\ journal'[m].task = t /\ journal'[m].attempt = a
  BY <1>9, <1>10 DEF Intent
<1>12. \A i \in Intents(journal) : i \in Nat /\ i < m /\ journal'[i] = journal[i]
  BY <1>9, <1>10, IntentTypes DEF n, Intents
<1>13. JournalTypeOK'
  BY <1>1, <1>9 DEF JournalTypeOK, Jobs
<1>14. job'[p] = "intended" /\ \A q \in Executors : q # p => job'[q] = job[q] /\ job[q] \notin LockedJobs
  BY <1>1, <1>3 DEF JournalTypeOK, LockHeld
<1>15. LockHeld'
  <2>1. \A q \in Executors : todo[q] = {}
    BY <1>3, <1>14 DEF LockHeld, LockedJobs
  <2>2. \A q \in Executors : job'[q] \in LockedJobs <=> q \in inside
    BY <1>3, <1>14 DEF LockHeld, LockedJobs
  <2> QED BY <1>1, <2>1, <2>2 DEF LockHeld
<1>16. AttemptsNumbered'
  <2>1. Cardinality(Intents(journal')) = count + 1
    BY <1>4, <1>11, FS_AddElement
  <2>2. \A i \in Intents(journal) : journal'[i].attempt \in Nat /\ journal'[i].attempt <= count
    BY <1>5, <1>12
  <2>3. \A i \in Intents(journal') : journal'[i].attempt <= count + 1
    BY <1>4, <1>11, <2>2
  <2>4. \A i, k \in Intents(journal') : journal'[i].attempt = journal'[k].attempt => i = k
    BY <1>6, <1>11, <1>12 DEF AttemptsNumbered
  <2> QED BY <2>1, <2>3, <2>4 DEF AttemptsNumbered
<1>17. OneAtATime'
  <2>1. \A i \in Pending(journal'), k \in Intents(journal') : k <= i
    BY <1>11, <1>12
  <2>2. ASSUME NEW i \in Intents(journal'), NEW j \in Intents(journal'), Resolves(journal', i, j)
        PROVE  \E k \in DOMAIN journal' : k < j /\ Resolves(journal', i, k)
    <3>1. i \in Intents(journal)
      BY <1>11, <1>12, <2>2 DEF Resolves
    <3>2. ASSUME NEW k \in DOMAIN journal, Resolves(journal, i, k)
          PROVE  k \in DOMAIN journal' /\ k < m /\ Resolves(journal', i, k)
      BY <1>9, <1>10, <1>12, <3>1, <3>2 DEF Resolves, n
    <3>3. CASE j = m
      <4>1. PICK k \in DOMAIN journal : Resolves(journal, i, k)
        BY <1>2, <3>1 DEF Pending
      <4> QED BY <3>2, <3>3, <4>1
    <3>4. CASE j \in Intents(journal)
      <4>1. Resolves(journal, i, j)
        BY <1>12, <2>2, <3>1, <3>4 DEF Resolves
      <4>2. PICK k \in DOMAIN journal : k < j /\ Resolves(journal, i, k)
        BY <3>1, <3>4, <4>1 DEF OneAtATime
      <4> QED BY <3>2, <4>2
    <3> QED BY <1>11, <3>3, <3>4
  <2> QED BY <2>1, <2>2 DEF OneAtATime
<1>18. DoneIsDone' /\ RefusalsAreTrue'
  BY <1>2, <1>9, <1>11 DEF DoneIsDone, RefusalsAreTrue
<1>19. JobsMean'
  <2>1. (WorksOn(p, m))' /\ m \in Pending(journal')
    BY <1>1, <1>7, <1>8, <1>11, <1>14 DEF WorksOn
  <2>2. ASSUME NEW q \in Executors, q # p
        PROVE  /\ job'[q] \in {"scanned", "proving"} => task'[q] \in Tasks
               /\ job'[q] \notin {"proving", "intended", "waiting", "answered"}
    BY <1>1, <1>14, <2>2 DEF JobsMean, LockedJobs
  <2> QED BY <1>14, <2>1, <2>2 DEF JobsMean
<1>20. WireAgrees'
  <2> SUFFICES ASSUME NEW b \in Attempts
               PROVE  /\ driver[b] \in {"none", "running", "announced"} => chain[b] = "absent"
                      /\ ~(driver[b] \in {"running", "announced"} \/ chain[b] = "pending")
                      /\ (~IsUsed(b))' => driver[b] = "none"
                      /\ log[b] = "rejected" => IsLost(b)
    BY <1>1 DEF WireAgrees, IsLost
  <2>1. IsUsed(b) => (IsUsed(b))'
    BY <1>11, <1>12 DEF IsUsed
  <2>2. ~IsPending(b)
    BY <1>2 DEF IsPending
  <2> QED BY <2>1, <2>2 DEF WireAgrees
<1>21. InclusionsAreKnown'
  <2>1. ASSUME NEW i \in Intents(journal), chain[journal[i].attempt] = "included"
        PROVE  (IsIncluded(journal[i].task))'
    BY <1>2, <1>9, <1>12, <2>1, IntentTypes DEF InclusionsAreKnown
  <2>2. \A i \in Intents(journal') \ Pending(journal') :
           chain'[journal'[i].attempt] = "included" => (IsIncluded(journal[i].task))'
    BY <1>1, <1>11, <1>12, <2>1
  <2>3. \A i \in Intents(journal') : chain'[journal'[i].attempt] = "included" => i \in Intents(journal)
    BY <1>1, <1>7, <1>11
  <2>4. \A i, k \in Intents(journal) :
           (/\ journal'[i].task = journal'[k].task
            /\ chain'[journal'[i].attempt] = "included"
            /\ chain'[journal'[k].attempt] = "included") => i = k
    BY <1>1, <1>12 DEF InclusionsAreKnown
  <2> QED BY <2>2, <2>3, <2>4 DEF InclusionsAreKnown
<1> QED BY <1>1, <1>2, <1>7, <1>8, <1>13, <1>15, <1>16, <1>17, <1>18, <1>19, <1>20, <1>21 DEF world

LEMMA JournalNext_IInv == JournalIInv /\ [JournalNext]_journalVars => JournalIInv'
<1> SUFFICES ASSUME JournalIInv, [JournalNext]_journalVars PROVE JournalIInv'
  OBVIOUS
<1>1. CASE UNCHANGED journalVars
  <2>1. UNCHANGED <<alive, inside, journal, log, job, task, todo, driver, chain, current>>
    BY <1>1 DEF journalVars, mutexVars, files, process, world
  <2>2. JournalTypeOK' /\ LockHeld' /\ JobsMean'
    BY <2>1, JournalStays DEF JournalIInv, JournalTypeOK, LockHeld, JobsMean, WorksOn
  <2> QED BY <2>1, <2>2, RecordsStay, WireStays DEF JournalIInv
<1>2. CASE PowerLoss \/ Evolve
  BY <1>2, PowerLossKeeps, EvolveKeeps
<1>3. ASSUME NEW a \in Attempts, Driver(a) \/ Include(a) \/ Drop(a) PROVE JournalIInv'
  BY <1>3, DriverKeeps, ChainKeeps
<1>4. ASSUME NEW p \in Executors, Begin(p) \/ End(p) \/ Work(p) PROVE JournalIInv'
  BY <1>4, BeginKeeps, StepsKeep, JudgeKeeps, IntendKeeps, SpawnKeeps, RecordResultKeeps DEF Work
<1> QED BY <1>1, <1>2, <1>3, <1>4 DEF JournalNext

-----------------------------------------------------------------------------
(* The state of an attempt that the journal stands for.                    *)

LEMMA UnusedState ==
    ASSUME NEW a \in Attempts, ~IsUsed(a)
    PROVE  JournalState[a] = "unused"
BY DEF JournalState

LEMMA PendingState ==
    ASSUME JournalIInv, NEW i \in Pending(journal)
    PROVE  JournalState[journal[i].attempt] = "open"
<1>1. i \in Intents(journal) /\ Said(i) = {}
  BY DEF Pending, Said
<1>2. IsUsed(journal[i].attempt) /\ IntentOf(journal[i].attempt) = i
  BY <1>1, UsedByOne
<1>3. journal[i].attempt \in Attempts
  BY <1>1, IntentTypes DEF JournalIInv
<1> QED BY <1>1, <1>2, <1>3 DEF JournalState, Resolution

(* An intent that is not pending was resolved by a verdict.                *)
LEMMA ResolvedState ==
    ASSUME JournalIInv, NEW i \in Intents(journal), i \notin Pending(journal)
    PROVE  /\ Said(i) \in SUBSET (1 .. Len(journal)) /\ Said(i) # {}
           /\ Len(journal) \in Nat /\ Said(i) \in SUBSET Nat
           /\ journal[Min(Said(i))].status \in {"included", "not-submitted"}
           /\ JournalState[journal[i].attempt] =
                  IF journal[Min(Said(i))].status = "included" THEN "done" ELSE "refused"
<1> USE DEF JournalIInv
<1>1. Said(i) # {} /\ Said(i) \in SUBSET (1 .. Len(journal)) /\ Len(journal) \in Nat
  BY DEF Pending, Said, JournalTypeOK
<1>2. Said(i) \in SUBSET Nat
  BY <1>1
<1> DEFINE m == Min(Said(i))
<1>3. m \in Said(i) /\ \A k \in Said(i) : m <= k
  BY <1>1, <1>2, HasLeast
<1>4. m \in DOMAIN journal /\ Resolves(journal, i, m)
  BY <1>3 DEF Said
<1>5. m \notin Intents(journal)
  <2>1. SUFFICES ASSUME m \in Intents(journal) PROVE FALSE
    OBVIOUS
  <2>2. PICK k \in DOMAIN journal : k < m /\ Resolves(journal, i, k)
    BY <1>4, <2>1 DEF OneAtATime
  <2>3. k \in Said(i)
    BY <2>2 DEF Said
  <2> HIDE DEF m
  <2>4. m \in Nat /\ k \in Nat
    BY <1>2, <1>3, <2>3
  <2> QED BY <1>3, <2>2, <2>3, <2>4
<1>6. journal[m].status \in {"included", "not-submitted"}
  BY <1>4, <1>5 DEF Resolves, Intents
<1>7. IsUsed(journal[i].attempt) /\ IntentOf(journal[i].attempt) = i /\ journal[i].attempt \in Attempts
  BY UsedByOne, IntentTypes
<1> QED BY <1>1, <1>2, <1>6, <1>7 DEF JournalState, Resolution

(* No record that follows changes it.                                      *)
LEMMA ResolvedStays ==
    ASSUME JournalIInv, JournalIInv', NEW i \in Intents(journal), i \notin Pending(journal),
           i \in Intents(journal'),
           \A j \in DOMAIN journal : journal'[j] = journal[j] /\ j \in DOMAIN journal'
    PROVE  JournalState'[journal[i].attempt] = JournalState[journal[i].attempt]
<1> DEFINE S == Said(i)
           m == Min(S)
           n == Len(journal)
<1>1. /\ S \in SUBSET (1 .. n) /\ S # {} /\ n \in Nat /\ S \in SUBSET Nat
      /\ journal[m].status \in {"included", "not-submitted"}
      /\ JournalState[journal[i].attempt] =
            IF journal[m].status = "included" THEN "done" ELSE "refused"
  BY ResolvedState
<1>2. m \in S /\ \A k \in S : m <= k
  BY <1>1, HasLeast
<1>3. /\ DOMAIN journal = 1 .. n /\ i \in 1 .. n /\ journal'[i] = journal[i]
      /\ \A j \in DOMAIN journal' : j \in 1 .. n \/ (j \in Nat /\ j > n)
  BY DEF JournalIInv, JournalTypeOK, Intents
<1>4. PICK T : T = (Said(i))'
  OBVIOUS
<1>5. /\ S \subseteq T
      /\ \A j \in T : j \in S \/ (j \in Nat /\ j > n)
  BY <1>3, <1>4 DEF Said, Resolves
<1>6. T \in SUBSET Nat /\ T # {}
  BY <1>1, <1>5
<1> HIDE DEF S, m, n
<1>7. Min(T) \in T /\ \A k \in T : Min(T) <= k
  BY <1>6, HasLeast
<1>8. m \in T /\ m \in Nat /\ m <= n
  BY <1>1, <1>2, <1>5
<1>9. Min(T) = m
  <2>1. Min(T) <= m /\ Min(T) \in Nat
    BY <1>6, <1>7, <1>8
  <2>2. Min(T) \in S
    BY <1>1, <1>5, <1>7, <1>8, <2>1
  <2> QED BY <1>2, <1>8, <2>1, <2>2
<1>10. journal'[m] = journal[m]
  BY <1>1, <1>2, <1>3
<1>11. PICK a \in Attempts : a = journal[i].attempt
  BY IntentTypes DEF JournalIInv
<1>12. (IsUsed(a))' /\ (IntentOf(a))' = i
  <2>1. \A k \in Intents(journal') : journal'[k].attempt = a <=> k = i
    BY <1>3, <1>11 DEF JournalIInv, AttemptsNumbered
  <2>2. (IntentOf(a))' = i
    BY <2>1 DEF IntentOf
  <2> QED BY <2>1, <2>2 DEF IsUsed
<1>13. JournalState'[a] = (Resolution(a))'
  BY <1>12 DEF JournalState
<1>14. (Resolution(a))' = IF journal[m].status = "included" THEN "done" ELSE "refused"
  BY <1>1, <1>4, <1>6, <1>9, <1>10, <1>12 DEF Resolution
<1> QED BY <1>1, <1>11, <1>13, <1>14

(* The states of the attempts are what their intents make them.            *)
LEMMA PendingIsOpen ==
    \A i : JournalIInv /\ i \in Pending(journal) => JournalState[journal[i].attempt] = "open"
BY PendingState

LEMMA PendingIsOpenNext ==
    \A i : JournalIInv' /\ i \in Pending(journal') => JournalState'[journal'[i].attempt] = "open"
<1>1. (\A i : JournalIInv /\ i \in Pending(journal) => JournalState[journal[i].attempt] = "open")'
  BY PendingIsOpen, PTL
<1> QED BY <1>1

(* The journal gained no intent, and resolved none.                        *)
LEMMA StateStays ==
    ASSUME JournalIInv, JournalIInv',
           Intents(journal') = Intents(journal), Pending(journal') = Pending(journal),
           \A j \in DOMAIN journal : journal'[j] = journal[j] /\ j \in DOMAIN journal'
    PROVE  JournalState' = JournalState
<1> SUFFICES ASSUME NEW a \in Attempts PROVE JournalState'[a] = JournalState[a]
  BY DEF JournalState
<1>1. \A i \in Intents(journal) : journal'[i] = journal[i]
  BY DEF Intents
<1>2. (IsUsed(a))' = IsUsed(a)
  BY <1>1 DEF IsUsed
<1>3. CASE ~IsUsed(a)
  BY <1>2, <1>3 DEF JournalState
<1>4. CASE IsUsed(a)
  <2>1. PICK i \in Intents(journal) : journal[i].attempt = a
    BY <1>4 DEF IsUsed
  <2>2. CASE i \in Pending(journal)
    BY <1>1, <2>1, <2>2, PendingIsOpen, PendingIsOpenNext
  <2>3. CASE i \notin Pending(journal)
    BY <2>1, <2>3, ResolvedStays
  <2> QED BY <2>2, <2>3
<1> QED BY <1>3, <1>4

LEMMA RestStutters ==
    ASSUME JournalIInv, JournalIInv', journal' = journal
    PROVE  JournalState' = JournalState
BY StateStays

(* Recording a result opens and closes nothing.                            *)
LEMMA ResultStutters ==
    ASSUME JournalIInv, JournalIInv', NEW p \in Executors, RecordResult(p)
    PROVE  JournalState' = JournalState /\ chain' = chain
<1>1. PICK o \in {"not-submitted", "leaf", "unknown"} : Write(Result(task[p], o))
  BY RecordResultKeeps
<1>2. task[p] \in Tasks /\ chain' = chain
  BY RecordResultKeeps DEF world
<1> QED BY <1>1, <1>2, ResultWritten, StateStays DEF JournalIInv

(* An intent opens its attempt, and no other is open.                      *)
LEMMA IntendOpens ==
    ASSUME JournalIInv, JournalIInv', NEW p \in Executors, Intend(p)
    PROVE  Submissions!Open(NextAttempt) /\ NextAttempt \in Attempts
<1>1. /\ Pending(journal) = {} /\ task[p] \in Tasks /\ NextAttempt \in Attempts
      /\ Write(Intent(task[p], NextAttempt)) /\ chain' = chain
      /\ ~IsUsed(NextAttempt)
  BY IntendKeeps DEF world
<1>2. PICK a \in Attempts : a = NextAttempt
  BY <1>1
<1>3. JournalState[a] = "unused"
  BY <1>1, <1>2, UnusedState
<1>4. ASSUME NEW b \in Attempts PROVE JournalState[b] # "open"
  <2>1. CASE ~IsUsed(b)
    BY <2>1, UnusedState
  <2>2. CASE IsUsed(b)
    <3>1. PICK i \in Intents(journal) : journal[i].attempt = b
      BY <2>2 DEF IsUsed
    <3> QED BY <1>1, <3>1, ResolvedState
  <2> QED BY <2>1, <2>2
<1>5. PICK m : m = Len(journal) + 1
  OBVIOUS
<1>6. /\ Intents(journal') = Intents(journal) \cup {m} /\ Pending(journal') = {m}
      /\ journal'[m] = Intent(task[p], a)
      /\ DOMAIN journal' = 1 .. m /\ Len(journal) \in Nat
      /\ \A i \in DOMAIN journal : journal'[i] = journal[i]
  BY <1>1, <1>2, <1>5, IntentWritten DEF JournalIInv
<1>7. \A j \in DOMAIN journal : journal'[j] = journal[j] /\ j \in DOMAIN journal'
  BY <1>5, <1>6 DEF JournalIInv, JournalTypeOK
<1>8. JournalState'[a] = "open"
  BY <1>6, PendingIsOpenNext DEF Intent
<1>9. ASSUME NEW b \in Attempts, b # a PROVE JournalState'[b] = JournalState[b]
  <2>1. \A i \in Intents(journal) : journal'[i] = journal[i]
    BY <1>7 DEF Intents
  <2>2. (IsUsed(b))' <=> IsUsed(b)
    BY <1>6, <1>9, <2>1 DEF IsUsed, Intent
  <2>3. CASE ~IsUsed(b)
    BY <2>2, <2>3 DEF JournalState
  <2>4. CASE IsUsed(b)
    <3>1. PICK i \in Intents(journal) : journal[i].attempt = b
      BY <2>4 DEF IsUsed
    <3> QED BY <1>1, <1>6, <1>7, <3>1, ResolvedStays
  <2> QED BY <2>3, <2>4
<1>10. JournalState' = [JournalState EXCEPT ![a] = "open"]
  BY <1>8, <1>9 DEF JournalState
<1> QED BY <1>1, <1>2, <1>3, <1>4, <1>10 DEF Submissions!Open

(* A verdict closes the pending attempt, and says the truth.               *)
LEMMA VerdictCloses ==
    ASSUME JournalIInv, JournalIInv', NEW p \in Executors, NEW i, NEW r, VerdictMoves(p, i, r)
    PROVE  \E a \in Attempts : Submissions!Refused(a) \/ Submissions!Done(a)
<1>1. /\ Pending(journal) = {i} /\ i \in Intents(journal)
      /\ r \in {NotSubmitted(journal[i].task), Included(journal[i].task)} /\ Write(r)
      /\ r = NotSubmitted(journal[i].task) => IsLost(journal[i].attempt)
      /\ r = Included(journal[i].task) => chain[journal[i].attempt] = "included"
      /\ chain' = chain
  BY DEF VerdictMoves, world
<1>2. PICK a \in Attempts, t \in Tasks : a = journal[i].attempt /\ t = journal[i].task
  BY <1>1, IntentTypes DEF JournalIInv
<1>3. /\ Intents(journal') = Intents(journal)
      /\ Pending(journal') = {}
      /\ \A j \in DOMAIN journal : journal'[j] = journal[j] /\ j \in DOMAIN journal'
      /\ DOMAIN journal' = 1 .. (Len(journal) + 1)
      /\ journal'[Len(journal) + 1] = r
  BY <1>1, <1>2, VerdictWritten, VerdictKeeps DEF JournalIInv
<1>4. PICK m : m = Len(journal) + 1
  OBVIOUS
<1>5. /\ Len(journal) \in Nat /\ DOMAIN journal = 1 .. Len(journal)
      /\ i \in 1 .. Len(journal) /\ m \in Nat
  BY <1>1, <1>4 DEF JournalIInv, JournalTypeOK, Intents
<1>6. JournalState[a] = "open"
  BY <1>1, <1>2, PendingIsOpen
<1>7. (Said(i))' = {m}
  <2>1. \A j \in DOMAIN journal : ~Resolves(journal, i, j)
    BY <1>1 DEF Pending
  <2>2. \A j \in DOMAIN journal : ~Resolves(journal', i, j)
    BY <1>3, <1>5, <2>1 DEF Resolves
  <2>3. Resolves(journal', i, m)
    BY <1>1, <1>2, <1>3, <1>4, <1>5 DEF Resolves, NotSubmitted, Included
  <2> QED BY <1>3, <1>4, <1>5, <2>2, <2>3 DEF Said
<1>8. Min({m}) = m
  BY <1>5, HasLeast
<1>9. (IsUsed(a))' /\ (IntentOf(a))' = i
  <2>1. journal'[i] = journal[i] /\ i \in Intents(journal')
    BY <1>1, <1>3, <1>5
  <2>2. \A k \in Intents(journal') : journal'[k].attempt = a <=> k = i
    BY <1>2, <2>1 DEF JournalIInv, AttemptsNumbered
  <2>3. (IntentOf(a))' = i
    BY <2>1, <2>2 DEF IntentOf
  <2> QED BY <2>1, <2>2, <2>3 DEF IsUsed
<1>10. JournalState'[a] = CASE r.status = "included" -> "done"
                            [] r.status = "not-submitted" -> "refused"
                            [] OTHER -> "open"
  BY <1>3, <1>4, <1>7, <1>8, <1>9 DEF JournalState, Resolution
<1>11. ASSUME NEW b \in Attempts, b # a PROVE JournalState'[b] = JournalState[b]
  <2>1. \A k \in Intents(journal) : journal'[k] = journal[k]
    BY <1>3 DEF Intents
  <2>2. (IsUsed(b))' <=> IsUsed(b)
    BY <1>3, <2>1 DEF IsUsed
  <2>3. CASE ~IsUsed(b)
    BY <2>2, <2>3 DEF JournalState
  <2>4. CASE IsUsed(b)
    <3>1. PICK k \in Intents(journal) : journal[k].attempt = b
      BY <2>4 DEF IsUsed
    <3>2. k \notin Pending(journal)
      BY <1>1, <1>2, <1>11, <3>1
    <3> QED BY <1>3, <3>1, <3>2, ResolvedStays
  <2> QED BY <2>3, <2>4
<1>12. \A to : JournalState'[a] = to => JournalState' = [JournalState EXCEPT ![a] = to]
  BY <1>11 DEF JournalState
<1>13. CASE r = NotSubmitted(journal[i].task)
  <2>1. JournalState'[a] = "refused" /\ chain[a] = "absent"
    BY <1>1, <1>2, <1>10, <1>13 DEF NotSubmitted, IsLost
  <2>2. Submissions!Refused(a)
    BY <1>1, <1>6, <1>12, <2>1 DEF Submissions!Refused, Submissions!Close
  <2> QED BY <2>2
<1>14. CASE r = Included(journal[i].task)
  <2>1. JournalState'[a] = "done" /\ chain[a] = "included"
    BY <1>1, <1>2, <1>10, <1>14 DEF Included
  <2>2. Submissions!Done(a)
    BY <1>1, <1>6, <1>12, <2>1 DEF Submissions!Done, Submissions!Close
  <2> QED BY <2>2
<1> QED BY <1>1, <1>13, <1>14

-----------------------------------------------------------------------------
(* The theorems about the journal.                                         *)

THEOREM JournalInductive == JournalSpec => []JournalIInv
BY JournalInit_IInv, JournalNext_IInv, PTL DEF JournalSpec

LEMMA IInvImpliesInv == JournalIInv => JournalInv
<1> SUFFICES ASSUME JournalIInv PROVE JournalInv
  OBVIOUS
<1> USE DEF JournalIInv
<1>1. Cardinality(Pending(journal)) <= 1
  <2>1. CASE Pending(journal) = {}
    BY <2>1, FS_EmptySet
  <2>2. CASE Pending(journal) # {}
    <3>1. PICK i \in Pending(journal) : TRUE
      BY <2>2
    <3>2. Pending(journal) = {i}
      BY LastIsPending
    <3>3. Cardinality({i}) = 1
      BY FS_Singleton
    <3> QED BY <3>2, <3>3
  <2> QED BY <2>1, <2>2
<1>2. ASSUME NEW p \in Executors
      PROVE  /\ job[p] \in {"reconciling", "refused", "proving", "intended", "waiting", "answered"}
                    <=> p \in inside
             /\ job[p] = "proving" => Pending(journal) = {}
             /\ job[p] \in {"intended", "waiting", "answered"} =>
                    /\ Pending(journal) = {LastIntent}
                    /\ journal[LastIntent].task = task[p]
  <2>1. job[p] \in {"intended", "waiting", "answered"} =>
            Pending(journal) = {LastIntent} /\ journal[LastIntent].task = task[p]
    BY WorkIsLast
  <2> QED BY <2>1 DEF LockHeld, LockedJobs, JobsMean
<1>3. ASSUME NEW a \in Attempts, IsPending(a) PROVE JournalState[a] = "open"
  BY <1>3, PendingIsOpen DEF IsPending
<1>4. \A a \in Attempts :
           /\ driver[a] \in {"running", "announced"} \/ chain[a] = "pending" =>
                  JournalState[a] = "open"
           /\ log[a] = "rejected" => driver[a] = "over" /\ chain[a] = "absent"
  BY <1>3 DEF WireAgrees, IsLost
<1> QED BY <1>1, <1>2, <1>4 DEF JournalInv

(* Whoever works on an attempt holds the lock, one attempt is pending at a *)
(* time, and what still drives or waits for the chain is that attempt.     *)
THEOREM JournalCorrect == JournalSpec => []JournalInv
BY JournalInductive, IInvImpliesInv, PTL

(* A task reaches the chain once, however often executors, drivers and     *)
(* power end in between.                                                   *)
THEOREM TasksAreDoneOnce == JournalSpec => []NoTaskTwice
<1>1. JournalIInv => NoTaskTwice
  <2> SUFFICES ASSUME JournalIInv, NEW a \in Attempts, NEW b \in Attempts,
                      chain[a] = "included", chain[b] = "included", TaskOf(a) = TaskOf(b)
               PROVE  a = b
    BY DEF NoTaskTwice
  <2>1. IsUsed(a) /\ IsUsed(b)
    BY DEF JournalIInv, WireAgrees
  <2>2. PICK i \in Intents(journal), k \in Intents(journal) :
            journal[i].attempt = a /\ journal[k].attempt = b
    BY <2>1 DEF IsUsed
  <2>3. journal[i].task = journal[k].task
    BY <2>2, UsedByOne
  <2> QED BY <2>2, <2>3 DEF JournalIInv, InclusionsAreKnown
<1> QED BY <1>1, JournalInductive, PTL

(* Every step opens an attempt while none is open, closes one with what is *)
(* true of it, moves a broadcast of the open one, or is none of these.     *)
LEMMA StepSubmits ==
    JournalIInv /\ JournalIInv' /\ [JournalNext]_journalVars
        => [Submissions!SubmissionNext]_(Submissions!submissionVars)
<1> SUFFICES ASSUME JournalIInv, JournalIInv', [JournalNext]_journalVars
             PROVE  [Submissions!SubmissionNext]_(Submissions!submissionVars)
  OBVIOUS
<1>1. CASE journal' = journal /\ chain' = chain
  BY <1>1, RestStutters DEF Submissions!submissionVars
<1>2. ASSUME NEW a \in Attempts, Driver(a) \/ Include(a) \/ Drop(a)
      PROVE  [Submissions!SubmissionNext]_(Submissions!submissionVars)
  <2>1. journal' = journal
    BY <1>2 DEF Driver, Reject, Announce, Transmit, Kill, Include, Drop, files
  <2>2. JournalState' = JournalState
    BY <2>1, RestStutters
  <2>3. CASE chain[a] = "pending" /\ (Include(a) \/ Drop(a))
    <3>1. \E fate \in {"included", "dropped"} : chain' = [chain EXCEPT ![a] = fate]
      BY <2>3 DEF Include, Drop
    <3>2. Submissions!Settle(a)
      BY <2>2, <2>3, <3>1 DEF Submissions!Settle
    <3> QED BY <3>2 DEF Submissions!SubmissionNext
  <2>4. CASE Transmit(a)
    <3>1. driver[a] = "announced"
      BY <2>4 DEF Transmit, Drive
    <3>2. IsPending(a) /\ chain[a] = "absent"
      BY <3>1, LiveIsPending
    <3>3. JournalState[a] = "open"
      BY <3>2, PendingIsOpen DEF IsPending
    <3>4. PICK fate \in {"absent", "pending"} : chain' = [chain EXCEPT ![a] = fate]
      BY <2>4 DEF Transmit
    <3>5. CASE fate = "absent"
      BY <1>1, <2>1, <3>2, <3>4, <3>5 DEF JournalIInv, JournalTypeOK
    <3>6. CASE fate = "pending"
      <4>1. Submissions!Broadcast(a)
        BY <2>2, <3>2, <3>3, <3>4, <3>6 DEF Submissions!Broadcast
      <4> QED BY <4>1 DEF Submissions!SubmissionNext
    <3> QED BY <3>4, <3>5, <3>6
  <2>5. CASE Reject(a) \/ Announce(a) \/ Kill(a)
    BY <1>1, <2>1, <2>5 DEF Reject, Announce, Kill
  <2> QED BY <1>2, <2>3, <2>4, <2>5 DEF Driver, Include, Drop
<1>3. ASSUME NEW p \in Executors, Judge(p) \/ Conclude(p)
      PROVE  [Submissions!SubmissionNext]_(Submissions!submissionVars)
  <2>1. CASE \E i, r : VerdictMoves(p, i, r)
    BY <2>1, VerdictCloses DEF Submissions!SubmissionNext
  <2>2. CASE UNCHANGED <<files, world>>
    BY <1>1, <2>2 DEF files, world
  <2> QED BY <1>3, <2>1, <2>2, JudgeWrites, ConcludeWrites DEF ProcessMoves
<1>4. ASSUME NEW p \in Executors, Intend(p) \/ RecordResult(p)
      PROVE  [Submissions!SubmissionNext]_(Submissions!submissionVars)
  BY <1>4, IntendOpens, ResultStutters DEF Submissions!SubmissionNext, Submissions!submissionVars
<1>5. ASSUME NEW p \in Executors,
             \/ Begin(p) \/ End(p) \/ BeginReconcile(p) \/ ReadFails(p) \/ IndexerLags(p)
             \/ EndReconcile(p) \/ Scan(p) \/ BeginExecute(p) \/ Refuse(p) \/ GiveUp(p) \/ Spawn(p)
      PROVE  journal' = journal /\ chain' = chain
  BY <1>5 DEF Begin, End, BeginReconcile, ReadFails, IndexerLags, EndReconcile, Scan, BeginExecute,
     Refuse, GiveUp, Finish, Spawn, files, world
<1>6. CASE PowerLoss \/ Evolve \/ UNCHANGED journalVars
  BY <1>1, <1>6 DEF PowerLoss, Evolve, journalVars, files, world
<1> QED BY <1>1, <1>2, <1>3, <1>4, <1>5, <1>6 DEF JournalNext, Work

(* The journal and the drivers implement VaultSubmissions.                 *)
THEOREM JournalRefinesSubmissions == JournalSpec => ImplementsSubmissions
<1>1. JournalInit => Submissions!SubmissionInit
  <2> SUFFICES ASSUME JournalInit PROVE Submissions!SubmissionInit
    OBVIOUS
  <2>1. Intents(journal) = {}
    BY DEF JournalInit, Intents
  <2>2. \A a \in Attempts : ~IsUsed(a)
    BY <2>1 DEF IsUsed
  <2> QED BY <2>2 DEF JournalInit, JournalState, Submissions!SubmissionInit
<1> QED BY <1>1, StepSubmits, JournalInductive, PTL
        DEF JournalSpec, ImplementsSubmissions, Submissions!SubmissionSpec

-----------------------------------------------------------------------------
(* The orderbook.                                                          *)
USE OrderbookAssumption

LEMMA InitInv == Init => OrderbookInv
  <1> SUFFICES ASSUME Init PROVE OrderbookInv
    OBVIOUS
  <1>1. TypeOK
    BY DEF Init, TypeOK, NoOrder, Slots, Zero, Snapshot, Receipt, Views, Receipts, PSY
  <1>2. CursorsAreClaims /\ ProofsAreOld /\ PaidOrdersStay
    BY DEF Init, NoOrder, Zero, Snapshot, Receipt, CursorsAreClaims, ProofsAreOld, PaidOrdersStay
  <1> QED BY <1>1, <1>2 DEF OrderbookInv

(* The contract's amounts are those of well-formed slots.                  *)
LEMMA Dues ==
    ASSUME NEW o \in Slots
    PROVE  PsyDue(o) \in Nat /\ PsyDue(o) > 0 /\ UsdtDue(o) \in Nat
  BY DEF Slots, PsyDue, UsdtDue

(* An order that a view shows active and funded is still in its slot.      *)
LEMMA FundedIsPresent ==
    ASSUME OrderbookInv, NEW v \in views, NEW s \in Sellers,
           v.order[s].kind = 1, IsFunded(v, s)
    PROVE  /\ v.psy[s] > settled_psy[s]
           /\ order[s] = v.order[s]
  <1>1. v \in Views
    BY DEF OrderbookInv, TypeOK
  <1>2. v.psy[s] > settled_psy[s]
    BY <1>1, Dues DEF OrderbookInv, TypeOK, IsFunded, Views
  <1> QED BY <1>2 DEF OrderbookInv, PaidOrdersStay

-----------------------------------------------------------------------------
(* What a seller does keeps the invariant if totals and nonces only grow   *)
(* and an order changes only when it is inactive or all was claimed.       *)
LEMMA SellerKeeps ==
    ASSUME OrderbookInv, NEW s \in Sellers, SellerMoves(s),
           order' \in [Sellers -> Slots],
           psy_sent' \in [Sellers -> Nat], usdt_sent' \in [Sellers -> Nat],
           \A x \in Sellers :
               /\ psy_sent[x] <= psy_sent'[x] /\ usdt_sent[x] <= usdt_sent'[x]
               /\ order[x].nonce <= order'[x].nonce
               /\ order'[x] # order[x] => order[x].kind = 0 \/ psy_sent[x] <= settled_psy[x]
    PROVE  OrderbookInv'
  <1> DEFINE new == Snapshot(checkpoint, order', psy_sent', usdt_sent')
  <1>1. new \in Views /\ views' = views \cup {new}
    BY DEF OrderbookInv, TypeOK, SellerMoves, Snapshot, Views
  <1>2. Receipt(checkpoint, psy_claimed[s], usdt_claimed[s]) \in Receipts
    BY DEF OrderbookInv, TypeOK, Receipt, Receipts
  <1>3. TypeOK'
    BY <1>1, <1>2 DEF OrderbookInv, TypeOK, SellerMoves, tokenVars, cursorVars
  <1>4. CursorsAreClaims'
    BY DEF OrderbookInv, CursorsAreClaims, SellerMoves, tokenVars, cursorVars
  <1>5. ASSUME NEW x \in Sellers
        PROVE  /\ settled_psy'[x] <= psy_sent'[x] /\ settled_usdt'[x] <= usdt_sent'[x]
               /\ consumed'[x] <= order'[x].nonce
               /\ \A r \in seen'[x] : r.psy <= settled_psy'[x] /\ r.usdt <= settled_usdt'[x]
    <2>1. settled_psy[x] <= psy_sent'[x] /\ settled_usdt[x] <= usdt_sent'[x]
      BY DEF OrderbookInv, TypeOK, ProofsAreOld
    <2>2. consumed[x] <= order'[x].nonce
      BY DEF OrderbookInv, TypeOK, ProofsAreOld, Slots
    <2>3. \A r \in seen'[x] : r.psy <= settled_psy[x] /\ r.usdt <= settled_usdt[x]
      BY DEF OrderbookInv, TypeOK, ProofsAreOld, CursorsAreClaims, SellerMoves, Receipt
    <2> QED BY <2>1, <2>2, <2>3 DEF SellerMoves, cursorVars
  <1>6. ASSUME NEW v \in views', NEW x \in Sellers
        PROVE  /\ v.psy[x] <= psy_sent'[x] /\ v.usdt[x] <= usdt_sent'[x]
               /\ (v.order[x].kind = 1 /\ v.psy[x] > settled_psy'[x]) => order'[x] = v.order[x]
    <2>1. CASE v = new
      BY <2>1 DEF Snapshot
    <2>2. CASE v \in views
      <3>1. v \in Views
        BY <2>2 DEF OrderbookInv, TypeOK
      <3>2. v.psy[x] <= psy_sent[x] /\ v.usdt[x] <= usdt_sent[x]
        BY <2>2 DEF OrderbookInv, ProofsAreOld
      <3>3. v.psy[x] <= psy_sent'[x] /\ v.usdt[x] <= usdt_sent'[x]
        BY <3>1, <3>2 DEF OrderbookInv, TypeOK, Views
      <3>4. ASSUME v.order[x].kind = 1, v.psy[x] > settled_psy[x]
            PROVE  order'[x] = v.order[x]
        <4>1. order[x] = v.order[x] /\ order[x].kind = 1
          BY <2>2, <3>4 DEF OrderbookInv, PaidOrdersStay
        <4>2. ~(psy_sent[x] <= settled_psy[x])
          BY <3>1, <3>2, <3>4 DEF OrderbookInv, TypeOK, Views
        <4> QED BY <4>1, <4>2
      <3> QED BY <3>3, <3>4 DEF SellerMoves, cursorVars
    <2> QED BY <1>1, <2>1, <2>2
  <1>7. ProofsAreOld' /\ PaidOrdersStay'
    BY <1>5, <1>6 DEF ProofsAreOld, PaidOrdersStay
  <1> QED BY <1>3, <1>4, <1>7 DEF OrderbookInv

(* open_sell only fills an inactive slot, with a higher nonce.             *)
LEMMA OpensIsSafe ==
    ASSUME OrderbookInv, NEW s \in Sellers, NEW o \in Orders, Opens(s, o)
    PROVE  /\ order' \in [Sellers -> Slots]
           /\ \A x \in Sellers :
               /\ order[x].nonce <= order'[x].nonce
               /\ order'[x] # order[x] => order[x].kind = 0
  <1>1. o \in Slots
    BY DEF OrderFields, Slots
  <1> QED BY <1>1 DEF OrderbookInv, TypeOK, Opens, Slots

LEMMA PaysIsSafe ==
    ASSUME OrderbookInv, NEW s \in Sellers, NEW psy \in Nat, NEW usdt \in Nat, Pays(s, psy, usdt)
    PROVE  /\ psy_sent' \in [Sellers -> Nat] /\ usdt_sent' \in [Sellers -> Nat]
           /\ \A x \in Sellers : psy_sent[x] <= psy_sent'[x] /\ usdt_sent[x] <= usdt_sent'[x]
  BY DEF OrderbookInv, TypeOK, Pays

LEMMA SellerInv ==
    ASSUME OrderbookInv, NEW s \in Sellers, Seller(s)
    PROVE  OrderbookInv'
  <1>0. \A x \in Sellers : /\ order[x].nonce \in Nat
                          /\ psy_sent[x] \in Nat /\ usdt_sent[x] \in Nat
    BY DEF OrderbookInv, TypeOK, Slots
  <1>1. CASE \E o \in Orders : OpenSell(s, o)
    <2>1. PICK o \in Orders : OpenSell(s, o)
      BY <1>1
    <2>2. PsyDue(o) \in Nat /\ UsdtDue(o) \in Nat
      BY DEF OrderFields, PsyDue, UsdtDue
    <2>3. Opens(s, o) /\ Pays(s, PsyDue(o), UsdtDue(o)) /\ SellerMoves(s)
      BY <2>1 DEF OpenSell
    <2> QED BY <2>2, <2>3, OpensIsSafe, PaysIsSafe, SellerKeeps
  <1>2. CASE \E o \in Orders : OpenUnfunded(s, o)
    <2>1. PICK o \in Orders : OpenUnfunded(s, o)
      BY <1>2
    <2>2. Opens(s, o) /\ SellerMoves(s) /\ UNCHANGED <<psy_sent, usdt_sent>>
      BY <2>1 DEF OpenUnfunded
    <2>3. psy_sent' \in [Sellers -> Nat] /\ usdt_sent' \in [Sellers -> Nat]
      BY <2>2 DEF OrderbookInv, TypeOK
    <2> QED BY <1>0, <2>2, <2>3, OpensIsSafe, SellerKeeps
  <1>3. CASE \E payment \in Payments : Pay(s, payment)
    <2>1. PICK payment \in Payments : Pay(s, payment)
      BY <1>3
    <2>2. payment.psy \in Nat /\ payment.usdt \in Nat
      OBVIOUS
    <2>3. Pays(s, payment.psy, payment.usdt) /\ UNCHANGED order /\ SellerMoves(s)
      BY <2>1 DEF Pay
    <2>4. order' \in [Sellers -> Slots]
      BY <2>3 DEF OrderbookInv, TypeOK
    <2> QED BY <1>0, <2>2, <2>3, <2>4, PaysIsSafe, SellerKeeps
  <1>4. CASE CloseOrder(s)
    <2>1. SellerMoves(s) /\ UNCHANGED <<psy_sent, usdt_sent>>
      BY <1>4 DEF CloseOrder
    <2>2. order' \in [Sellers -> Slots] /\ \A x \in Sellers : order[x].nonce <= order'[x].nonce
      <3> DEFINE o == [order[s] EXCEPT !.kind = 0]
      <3>1. order[s] \in Slots
        BY DEF OrderbookInv, TypeOK
      <3>2. o \in Slots /\ o.nonce = order[s].nonce
        BY <3>1 DEF Slots
      <3>3. order' = [order EXCEPT ![s] = o]
        BY <1>4 DEF CloseOrder
      <3> HIDE DEF o
      <3> QED BY <1>0, <3>2, <3>3 DEF OrderbookInv, TypeOK
    <2>3. psy_sent[s] <= settled_psy[s]
      BY <1>4 DEF CloseOrder, NothingUnclaimed, OrderbookInv, ProofsAreOld
    <2>4. \A x \in Sellers : order'[x] # order[x] => x = s
      BY <1>4 DEF CloseOrder, OrderbookInv, TypeOK
    <2>5. psy_sent' \in [Sellers -> Nat] /\ usdt_sent' \in [Sellers -> Nat]
      BY <2>1 DEF OrderbookInv, TypeOK
    <2> QED BY <1>0, <2>1, <2>2, <2>3, <2>4, <2>5, SellerKeeps
  <1> QED BY <1>1, <1>2, <1>3, <1>4 DEF Seller

-----------------------------------------------------------------------------
(* A stack of the escrow keeps the invariant: it settles funded orders     *)
(* only, and the cursors and claims are set to the same totals.            *)
LEMMA EscrowKeeps ==
    ASSUME OrderbookInv, NEW v \in views, NEW all \in SUBSET Sellers, NEW usdtSide \in SUBSET all,
           \A s \in all : v.order[s].kind = 1 /\ IsFunded(v, s),
           \A s \in usdtSide : v.order[s].asset = PUSDT,
           Settle(v, all, usdtSide), Claims(v, all, usdtSide), EscrowMoves,
           psy_paid' \in [Sellers -> Nat], usdt_paid' \in [Sellers -> Nat],
           psy_balance' \in Nat, usdt_balance' \in Nat
    PROVE  OrderbookInv'
  <1>1. v \in Views
    BY DEF OrderbookInv, TypeOK
  <1>2. \A s \in all : v.psy[s] > settled_psy[s] /\ order[s] = v.order[s]
    BY FundedIsPresent
  <1>3. \A s \in usdtSide : v.usdt[s] >= settled_usdt[s]
    BY <1>1, Dues DEF IsFunded, OrderbookInv, TypeOK, Views
  <1>4. CursorsAreClaims'
    BY DEF OrderbookInv, CursorsAreClaims, Settle, Claims
  <1>5. /\ consumed' \in [Sellers -> Nat]
        /\ settled_psy' \in [Sellers -> Nat] /\ settled_usdt' \in [Sellers -> Nat]
    BY <1>1 DEF OrderbookInv, TypeOK, Settle, Views, Slots
  <1>6. /\ order' = order /\ psy_sent' = psy_sent /\ usdt_sent' = usdt_sent
        /\ checkpoint' = checkpoint
    BY DEF EscrowMoves, sellerVars
  <1>7. \A s \in Sellers :
            /\ settled_psy[s] <= settled_psy'[s] /\ settled_psy'[s] <= psy_sent[s]
            /\ settled_usdt[s] <= settled_usdt'[s] /\ settled_usdt'[s] <= usdt_sent[s]
            /\ consumed'[s] <= order[s].nonce
    BY <1>1, <1>2, <1>3 DEF OrderbookInv, TypeOK, ProofsAreOld, Settle, Views, Slots
  <1>8. /\ views' \in SUBSET Views
        /\ \A w \in views', s \in Sellers :
            /\ w.psy[s] <= psy_sent'[s] /\ w.usdt[s] <= usdt_sent'[s]
            /\ order'[s] = w.order[s]
    BY <1>6 DEF OrderbookInv, TypeOK, EscrowMoves, Snapshot, Views
  <1>9. \A s \in Sellers :
            /\ Receipt(checkpoint, psy_claimed'[s], usdt_claimed'[s]) \in Receipts
            /\ seen'[s] = seen[s] \cup {Receipt(checkpoint, psy_claimed'[s], usdt_claimed'[s])}
    BY <1>4, <1>5 DEF OrderbookInv, TypeOK, CursorsAreClaims, EscrowMoves, Receipt, Receipts
  <1>10. \A s \in Sellers : \A r \in seen'[s] :
            r.psy <= settled_psy'[s] /\ r.usdt <= settled_usdt'[s]
    <2> SUFFICES ASSUME NEW s \in Sellers, NEW r \in seen'[s]
                 PROVE  r.psy <= settled_psy'[s] /\ r.usdt <= settled_usdt'[s]
      OBVIOUS
    <2>1. CASE r \in seen[s]
      <3>1. r \in Receipts /\ r.psy <= settled_psy[s] /\ r.usdt <= settled_usdt[s]
        BY <2>1 DEF OrderbookInv, TypeOK, ProofsAreOld
      <3> QED BY <3>1, <1>5, <1>7 DEF OrderbookInv, TypeOK, Receipts
    <2>2. CASE r = Receipt(checkpoint, psy_claimed'[s], usdt_claimed'[s])
      BY <2>2, <1>4, <1>5 DEF CursorsAreClaims, Receipt
    <2> QED BY <1>9, <2>1, <2>2
  <1>11. TypeOK'
    <2>1. seen' \in [Sellers -> SUBSET Receipts]
      BY <1>9 DEF OrderbookInv, TypeOK, EscrowMoves
    <2>2. psy_claimed' \in [Sellers -> Nat] /\ usdt_claimed' \in [Sellers -> Nat]
      BY <1>4, <1>5 DEF CursorsAreClaims
    <2> QED BY <1>5, <1>6, <1>8, <2>1, <2>2 DEF OrderbookInv, TypeOK
  <1>12. ProofsAreOld' /\ PaidOrdersStay'
    BY <1>6, <1>7, <1>8, <1>10 DEF ProofsAreOld, PaidOrdersStay
  <1> QED BY <1>4, <1>11, <1>12 DEF OrderbookInv

(* What the escrow holds suffices for the stack, by the exact payments.    *)
LEMMA MatchInv ==
    ASSUME OrderbookInv, NEW v \in views, NEW p \in Sellers, NEW u \in Sellers,
           NEW fee \in Fees, MatchOrders(v, p, u, fee)
    PROVE  OrderbookInv'
  <1> DEFINE a == v.order[p].amount
             b == v.order[u].amount
  <1>1. /\ MatchGuard(v, p, u)
        /\ Settle(v, {p, u}, {u}) /\ Claims(v, {p, u}, {u}) /\ EscrowMoves
        /\ Spends(PsyIn(v, p) + PsyIn(v, u), a + FeeEscrow, UsdtIn(v, u), b, fee)
        /\ psy_paid' = [psy_paid EXCEPT ![u] = @ + a + FeeEscrow]
        /\ usdt_paid' = [usdt_paid EXCEPT ![p] = @ + b]
    BY DEF MatchOrders
  <1>2. v \in Views
    BY DEF OrderbookInv, TypeOK
  <1>3. a \in Nat /\ b \in Nat /\ fee \in Nat
    BY <1>2 DEF Views, Slots
  <1>4. psy_paid' \in [Sellers -> Nat] /\ usdt_paid' \in [Sellers -> Nat]
    BY <1>1, <1>3 DEF OrderbookInv, TypeOK
  <1>5. PsyIn(v, p) + PsyIn(v, u) \in Int /\ UsdtIn(v, u) \in Int
    BY <1>2 DEF OrderbookInv, TypeOK, PsyIn, UsdtIn, Views
  <1>6. psy_balance' \in Nat /\ usdt_balance' \in Nat
    BY <1>1, <1>3, <1>5 DEF OrderbookInv, TypeOK, Spends
  <1>7. \A s \in {p, u} : v.order[s].kind = 1 /\ IsFunded(v, s)
    BY <1>1 DEF MatchGuard, IsOpen
  <1>8. \A s \in {u} : v.order[s].asset = PUSDT
    BY <1>1 DEF MatchGuard, IsOpen
  <1> QED BY <1>1, <1>4, <1>6, <1>7, <1>8, EscrowKeeps

LEMMA CancelPsyInv ==
    ASSUME OrderbookInv, NEW v \in views, NEW s \in Sellers, NEW fee \in Fees,
           CancelPsyOrder(v, s, fee)
    PROVE  OrderbookInv'
  <1> DEFINE a == v.order[s].amount
  <1>1. /\ IsOpen(v, s, PSY) /\ IsFunded(v, s)
        /\ Settle(v, {s}, {}) /\ Claims(v, {s}, {}) /\ EscrowMoves
        /\ Spends(PsyIn(v, s), a, 0, 0, fee)
        /\ psy_paid' = [psy_paid EXCEPT ![s] = @ + a] /\ usdt_paid' = usdt_paid
    BY DEF CancelPsyOrder
  <1>2. v \in Views
    BY DEF OrderbookInv, TypeOK
  <1>3. a \in Nat /\ fee \in Nat /\ PsyIn(v, s) \in Int
    BY <1>2 DEF OrderbookInv, TypeOK, PsyIn, Views, Slots
  <1>4. psy_paid' \in [Sellers -> Nat] /\ usdt_paid' \in [Sellers -> Nat]
    BY <1>1, <1>3 DEF OrderbookInv, TypeOK
  <1>5. psy_balance' \in Nat /\ usdt_balance' \in Nat
    BY <1>1, <1>3 DEF OrderbookInv, TypeOK, Spends
  <1>6. v.order[s].kind = 1
    BY <1>1 DEF IsOpen
  <1> QED BY <1>1, <1>4, <1>5, <1>6, EscrowKeeps

LEMMA CancelUsdtInv ==
    ASSUME OrderbookInv, NEW v \in views, NEW s \in Sellers, NEW fee \in Fees,
           CancelUsdtOrder(v, s, fee)
    PROVE  OrderbookInv'
  <1> DEFINE a == v.order[s].amount
  <1>1. /\ IsOpen(v, s, PUSDT) /\ IsFunded(v, s)
        /\ Settle(v, {s}, {s}) /\ Claims(v, {s}, {s}) /\ EscrowMoves
        /\ Spends(PsyIn(v, s), 0, UsdtIn(v, s), a, fee)
        /\ usdt_paid' = [usdt_paid EXCEPT ![s] = @ + a] /\ psy_paid' = psy_paid
    BY DEF CancelUsdtOrder
  <1>2. v \in Views
    BY DEF OrderbookInv, TypeOK
  <1>3. a \in Nat /\ fee \in Nat /\ PsyIn(v, s) \in Int /\ UsdtIn(v, s) \in Int
    BY <1>2 DEF OrderbookInv, TypeOK, PsyIn, UsdtIn, Views, Slots
  <1>4. psy_paid' \in [Sellers -> Nat] /\ usdt_paid' \in [Sellers -> Nat]
    BY <1>1, <1>3 DEF OrderbookInv, TypeOK
  <1>5. psy_balance' \in Nat /\ usdt_balance' \in Nat
    BY <1>1, <1>3 DEF OrderbookInv, TypeOK, Spends
  <1>6. v.order[s].kind = 1 /\ v.order[s].asset = PUSDT
    BY <1>1 DEF IsOpen
  <1> QED BY <1>1, <1>4, <1>5, <1>6, EscrowKeeps

LEMMA CheckpointInv == ASSUME OrderbookInv, NewCheckpoint PROVE OrderbookInv'
  <1> DEFINE new == Snapshot(checkpoint', order, psy_sent, usdt_sent)
  <1>1. new \in Views /\ views' = views \cup {new}
    BY DEF OrderbookInv, TypeOK, NewCheckpoint, Snapshot, Views
  <1>2. \A s \in Sellers :
            /\ Receipt(checkpoint', psy_claimed[s], usdt_claimed[s]) \in Receipts
            /\ seen'[s] = seen[s] \cup {Receipt(checkpoint', psy_claimed[s], usdt_claimed[s])}
    BY DEF OrderbookInv, TypeOK, NewCheckpoint, Receipt, Receipts
  <1>3. seen' \in [Sellers -> SUBSET Receipts]
    BY <1>2 DEF OrderbookInv, TypeOK, NewCheckpoint
  <1>4. TypeOK' /\ CursorsAreClaims'
    BY <1>1, <1>3 DEF OrderbookInv, TypeOK, CursorsAreClaims, NewCheckpoint,
                      sellerVars, tokenVars, cursorVars
  <1>5. ASSUME NEW s \in Sellers, NEW r \in seen'[s]
        PROVE  r.psy <= settled_psy[s] /\ r.usdt <= settled_usdt[s]
    <2>1. CASE r \in seen[s]
      BY <2>1 DEF OrderbookInv, ProofsAreOld
    <2>2. CASE r = Receipt(checkpoint', psy_claimed[s], usdt_claimed[s])
      BY <2>2 DEF OrderbookInv, TypeOK, CursorsAreClaims, Receipt
    <2> QED BY <1>2, <2>1, <2>2
  <1>6. \A v \in views', s \in Sellers :
            /\ v.psy[s] <= psy_sent[s] /\ v.usdt[s] <= usdt_sent[s]
            /\ (v.order[s].kind = 1 /\ v.psy[s] > settled_psy[s]) => order[s] = v.order[s]
    BY <1>1 DEF OrderbookInv, TypeOK, ProofsAreOld, PaidOrdersStay, Snapshot
  <1>7. ProofsAreOld' /\ PaidOrdersStay'
    BY <1>5, <1>6 DEF OrderbookInv, ProofsAreOld, PaidOrdersStay, NewCheckpoint,
                      sellerVars, cursorVars
  <1> QED BY <1>4, <1>7 DEF OrderbookInv

LEMMA StutterInv == ASSUME OrderbookInv, UNCHANGED vars PROVE OrderbookInv'
  BY DEF OrderbookInv, TypeOK, CursorsAreClaims, ProofsAreOld, PaidOrdersStay,
         vars, sellerVars, tokenVars, cursorVars

LEMMA StepInv == OrderbookInv /\ [Next]_vars => OrderbookInv'
  <1> SUFFICES ASSUME OrderbookInv, [Next]_vars PROVE OrderbookInv'
    OBVIOUS
  <1>1. CASE \E s \in Sellers : Seller(s)
    BY <1>1, SellerInv
  <1>2. CASE Escrow
    <2>1. PICK v \in views, s \in Sellers, fee \in Fees :
              \/ \E u \in Sellers : MatchOrders(v, s, u, fee)
              \/ CancelPsyOrder(v, s, fee)
              \/ CancelUsdtOrder(v, s, fee)
      BY <1>2 DEF Escrow
    <2> QED BY <2>1, MatchInv, CancelPsyInv, CancelUsdtInv
  <1>3. CASE NewCheckpoint
    BY <1>3, CheckpointInv
  <1>4. CASE UNCHANGED vars
    BY <1>4, StutterInv
  <1> QED BY <1>1, <1>2, <1>3, <1>4 DEF Next

(* The cursors are the claims, and a funded order that any proof may still *)
(* show is the one in its owner's slot, for any number of sellers.         *)
THEOREM OrderbookCorrect == Spec => []OrderbookInv
  BY InitInv, StepInv, PTL DEF Spec

-----------------------------------------------------------------------------
(* A stack that settles s pays it on the terms of the order it has now.    *)
LEMMA StepSettlesOnTerms ==
    ASSUME OrderbookInv, [Next]_vars, NEW s \in Sellers,
           psy_claimed'[s] # psy_claimed[s] \/ usdt_claimed'[s] # usdt_claimed[s]
    PROVE  OnSignedTerms(s)
  <1>1. Escrow
    BY DEF Next, Seller, OpenSell, OpenUnfunded, Pay, CloseOrder, SellerMoves, NewCheckpoint,
           vars, tokenVars
  <1>2. PICK v \in views, x \in Sellers, fee \in Fees :
            \/ \E u \in Sellers : MatchOrders(v, x, u, fee)
            \/ CancelPsyOrder(v, x, fee)
            \/ CancelUsdtOrder(v, x, fee)
    BY <1>1 DEF Escrow
  <1>3. v \in Views
    BY DEF OrderbookInv, TypeOK
  <1>4. /\ order[s] \in Slots /\ v.order[s] \in Slots
        /\ psy_paid[s] \in Nat /\ usdt_paid[s] \in Nat
    BY <1>3 DEF OrderbookInv, TypeOK, Views
  <1>5. CASE \E u \in Sellers : MatchOrders(v, x, u, fee)
    <2>1. PICK u \in Sellers : MatchOrders(v, x, u, fee)
      BY <1>5
    <2>2. /\ x # u /\ s \in {x, u} /\ MatchGuard(v, x, u)
          /\ consumed'[s] = v.order[s].nonce
          /\ psy_paid' = [psy_paid EXCEPT ![u] = @ + v.order[x].amount + FeeEscrow]
          /\ usdt_paid' = [usdt_paid EXCEPT ![x] = @ + v.order[u].amount]
      BY <2>1 DEF MatchOrders, MatchGuard, Claims, Settle, OrderbookInv, TypeOK
    <2>3. /\ order[x] = v.order[x] /\ order[u] = v.order[u]
          /\ order[x].kind = 1 /\ order[u].kind = 1
          /\ order[x].asset = PSY /\ order[u].asset = PUSDT
          /\ consumed[s] < order[s].nonce
      BY <2>2, <1>4, FundedIsPresent DEF MatchGuard, IsOpen, OrderbookInv, TypeOK
    <2>4. order[x] \in Slots /\ order[u] \in Slots
      BY DEF OrderbookInv, TypeOK
    <2>5. CASE s = x
      <3>1. Got(psy_paid, s) = 0 /\ Got(usdt_paid, s) = order[u].amount
        BY <2>2, <2>3, <2>4, <2>5, <1>4 DEF Got, OrderbookInv, TypeOK, Slots
      <3>2. order[u].amount >= order[s].minBuy
        BY <2>2, <2>3, <2>5 DEF MatchGuard, Crosses
      <3> QED BY <2>2, <2>3, <2>5, <3>1, <3>2 DEF OnSignedTerms, PSY, PUSDT
    <2>6. CASE s = u
      <3>1. Got(usdt_paid, s) = 0 /\ Got(psy_paid, s) = order[x].amount + FeeEscrow
        BY <2>2, <2>3, <2>4, <2>6, <1>4 DEF Got, OrderbookInv, TypeOK, Slots
      <3>2. order[x].amount + FeeEscrow >= order[s].minBuy + FeeEscrow
        BY <2>2, <2>3, <2>4, <2>6 DEF MatchGuard, Crosses, Slots
      <3> QED BY <2>2, <2>3, <2>6, <3>1, <3>2 DEF OnSignedTerms, PSY, PUSDT
    <2> QED BY <2>2, <2>5, <2>6
  <1>6. CASE CancelPsyOrder(v, x, fee)
    <2>1. /\ s = x /\ IsOpen(v, s, PSY) /\ IsFunded(v, s)
          /\ consumed'[s] = v.order[s].nonce
          /\ psy_paid' = [psy_paid EXCEPT ![s] = @ + v.order[s].amount] /\ usdt_paid' = usdt_paid
      BY <1>6 DEF CancelPsyOrder, Claims, Settle, OrderbookInv, TypeOK
    <2>2. order[s] = v.order[s] /\ order[s].kind = 1 /\ order[s].asset = PSY /\ consumed[s] < order[s].nonce
      BY <2>1, <1>4, FundedIsPresent DEF IsOpen, OrderbookInv, TypeOK
    <2>3. Got(psy_paid, s) = order[s].amount /\ Got(usdt_paid, s) = 0
      BY <2>1, <2>2, <1>4 DEF Got, OrderbookInv, TypeOK, Slots
    <2> QED BY <2>1, <2>2, <2>3 DEF OnSignedTerms, PSY, PUSDT
  <1>7. CASE CancelUsdtOrder(v, x, fee)
    <2>1. /\ s = x /\ IsOpen(v, s, PUSDT) /\ IsFunded(v, s)
          /\ consumed'[s] = v.order[s].nonce
          /\ usdt_paid' = [usdt_paid EXCEPT ![s] = @ + v.order[s].amount] /\ psy_paid' = psy_paid
      BY <1>7 DEF CancelUsdtOrder, Claims, Settle, OrderbookInv, TypeOK
    <2>2. order[s] = v.order[s] /\ order[s].kind = 1 /\ order[s].asset = PUSDT /\ consumed[s] < order[s].nonce
      BY <2>1, <1>4, FundedIsPresent DEF IsOpen, OrderbookInv, TypeOK
    <2>3. Got(usdt_paid, s) = order[s].amount /\ Got(psy_paid, s) = 0
      BY <2>1, <2>2, <1>4 DEF Got, OrderbookInv, TypeOK, Slots
    <2> QED BY <2>1, <2>2, <2>3 DEF OnSignedTerms, PSY, PUSDT
  <1> QED BY <1>2, <1>5, <1>6, <1>7

(* For any number of sellers and proofs of any age, a match or a refund    *)
(* takes payments only against the present order and pays its price.       *)
THEOREM SettlementsKeepTerms == Spec => SettledOnSignedTerms
  <1>1. OrderbookInv /\ [Next]_vars =>
            [\A s \in Sellers :
                (psy_claimed'[s] # psy_claimed[s] \/ usdt_claimed'[s] # usdt_claimed[s])
                    => OnSignedTerms(s)]_vars
    BY StepSettlesOnTerms
  <1> QED BY <1>1, OrderbookCorrect, PTL DEF Spec, SettledOnSignedTerms

-----------------------------------------------------------------------------
(* What a stack claims is what its orders are due.                         *)
LEMMA ClaimsAreDues ==
    ASSUME OrderbookInv, NEW v \in views, NEW s \in Sellers, IsFunded(v, s)
    PROVE  /\ PsyIn(v, s) = PsyDue(v.order[s])
           /\ v.order[s].asset = PUSDT => UsdtIn(v, s) = UsdtDue(v.order[s])
  <1>1. v \in Views
    BY DEF OrderbookInv, TypeOK
  <1>2. PsyDue(v.order[s]) \in Nat /\ UsdtDue(v.order[s]) \in Nat
    BY <1>1, Dues DEF Views
  <1>3. settled_psy[s] \in Nat /\ settled_usdt[s] \in Nat
        /\ psy_claimed[s] = settled_psy[s] /\ usdt_claimed[s] = settled_usdt[s]
    BY DEF OrderbookInv, TypeOK, CursorsAreClaims
  <1> QED BY <1>2, <1>3 DEF IsFunded, PsyIn, UsdtIn

LEMMA StepKeepsNoPrincipal ==
    OrderbookInv /\ NoPrincipalIsKept /\ [Next]_vars => NoPrincipalIsKept'
  <1> SUFFICES ASSUME OrderbookInv, usdt_balance = 0, [Next]_vars
               PROVE  usdt_balance' = 0
    BY DEF NoPrincipalIsKept
  <1>1. CASE Escrow
    <2>1. PICK v \in views, s \in Sellers, fee \in Fees :
              \/ \E u \in Sellers : MatchOrders(v, s, u, fee)
              \/ CancelPsyOrder(v, s, fee)
              \/ CancelUsdtOrder(v, s, fee)
      BY <1>1 DEF Escrow
    <2>2. v \in Views
      BY DEF OrderbookInv, TypeOK
    <2>3. CASE \E u \in Sellers : MatchOrders(v, s, u, fee)
      <3>1. PICK u \in Sellers : MatchOrders(v, s, u, fee)
        BY <2>3
      <3>2. IsFunded(v, u) /\ v.order[u].asset = PUSDT
        BY <3>1 DEF MatchOrders, MatchGuard, IsOpen
      <3>3. UsdtIn(v, u) = v.order[u].amount /\ v.order[u].amount \in Nat
        BY <2>2, <3>2, ClaimsAreDues DEF UsdtDue, Views, Slots
      <3> QED BY <3>1, <3>3 DEF MatchOrders, Spends
    <2>4. CASE CancelPsyOrder(v, s, fee)
      BY <2>4 DEF CancelPsyOrder, Spends
    <2>5. CASE CancelUsdtOrder(v, s, fee)
      <3>1. IsFunded(v, s) /\ v.order[s].asset = PUSDT
        BY <2>5 DEF CancelUsdtOrder, IsOpen
      <3>2. UsdtIn(v, s) = v.order[s].amount /\ v.order[s].amount \in Nat
        BY <2>2, <3>1, ClaimsAreDues DEF UsdtDue, Views, Slots
      <3> QED BY <2>5, <3>2 DEF CancelUsdtOrder, Spends
    <2> QED BY <2>1, <2>3, <2>4, <2>5
  <1>2. CASE ~Escrow
    BY <1>2 DEF Next, Seller, OpenSell, OpenUnfunded, Pay, CloseOrder, SellerMoves, NewCheckpoint,
                vars, tokenVars
  <1> QED BY <1>1, <1>2

(* The escrow keeps no pUSDT between two of its transactions, for any      *)
(* number of sellers and whatever they pay.                                *)
THEOREM EscrowKeepsNoPrincipal == Spec => []NoPrincipalIsKept
  <1>1. Init => NoPrincipalIsKept
    BY DEF Init, NoPrincipalIsKept
  <1> QED BY <1>1, StepKeepsNoPrincipal, OrderbookCorrect, PTL DEF Spec

-----------------------------------------------------------------------------
(* A careful seller has nothing in flight without an order, and with one   *)
(* exactly what the order is due, or nothing after it was settled.         *)
CarefulInv ==
    \A s \in Sellers \ Careless :
        \/ psy_sent[s] = settled_psy[s] /\ usdt_sent[s] = settled_usdt[s]
        \/ /\ order[s].kind = 1 /\ order[s].nonce > consumed[s]
           /\ order[s].asset \in {PSY, PUSDT}
           /\ psy_sent[s] = settled_psy[s] + PsyDue(order[s])
           /\ usdt_sent[s] = settled_usdt[s] + UsdtDue(order[s])

LEMMA CarefulIsNotStuck == OrderbookInv /\ CarefulInv => NothingStuck
  <1> SUFFICES ASSUME OrderbookInv, CarefulInv, NEW s \in Sellers \ Careless, order[s].kind = 1
               PROVE  CanRefund(s) \/ CanClose(s)
    BY DEF NothingStuck
  <1>1. /\ order[s] \in Slots /\ psy_claimed[s] = settled_psy[s] /\ usdt_claimed[s] = settled_usdt[s]
        /\ psy_claimed[s] \in Nat /\ psy_balance \in Nat
    BY DEF OrderbookInv, TypeOK, CursorsAreClaims
  <1>2. CASE psy_sent[s] = settled_psy[s] /\ usdt_sent[s] = settled_usdt[s]
    BY <1>1, <1>2 DEF CanClose, NothingUnclaimed, Receipt
  <1>3. CASE /\ order[s].nonce > consumed[s]
             /\ psy_sent[s] = settled_psy[s] + PsyDue(order[s])
             /\ usdt_sent[s] = settled_usdt[s] + UsdtDue(order[s])
    <2>1. IsOpen(Now, s, order[s].asset) /\ IsFunded(Now, s)
      BY <1>3 DEF IsOpen, IsFunded, Now, Snapshot
    <2>2. order[s].asset = PSY => PsyIn(Now, s) = order[s].amount + FeeEscrow
      BY <1>1, <1>3 DEF PsyIn, Now, Snapshot, PsyDue, Slots
    <2>3. \A fee \in Fees : order[s].asset = PSY =>
              order[s].amount + fee <= psy_balance + PsyIn(Now, s)
      BY <1>1, <2>2 DEF Slots
    <2> QED BY <2>1, <2>3 DEF CanRefund
  <1> QED BY <1>2, <1>3 DEF CarefulInv

(* What a stack leaves of a seller's deposit.                              *)
LEMMA StackTakesDues ==
    ASSUME OrderbookInv, NEW v \in views, NEW all \in SUBSET Sellers, NEW usdtSide \in SUBSET all,
           \A s \in all : v.order[s].kind = 1 /\ IsFunded(v, s),
           \A s \in all : s \in usdtSide <=> v.order[s].asset = PUSDT,
           Settle(v, all, usdtSide), EscrowMoves, CarefulInv
    PROVE  CarefulInv'
  <1> SUFFICES ASSUME NEW s \in Sellers \ Careless
               PROVE  \/ psy_sent'[s] = settled_psy'[s] /\ usdt_sent'[s] = settled_usdt'[s]
                      \/ /\ order'[s].kind = 1 /\ order'[s].nonce > consumed'[s]
                         /\ order'[s].asset \in {PSY, PUSDT}
                         /\ psy_sent'[s] = settled_psy'[s] + PsyDue(order'[s])
                         /\ usdt_sent'[s] = settled_usdt'[s] + UsdtDue(order'[s])
    BY DEF CarefulInv
  <1>1. /\ order' = order /\ psy_sent' = psy_sent /\ usdt_sent' = usdt_sent
        /\ settled_psy[s] \in Nat /\ settled_usdt[s] \in Nat /\ psy_sent[s] \in Nat
        /\ order[s] \in Slots /\ v \in Views
    BY DEF EscrowMoves, sellerVars, OrderbookInv, TypeOK
  <1>2. CASE s \notin all
    <2>1. /\ settled_psy'[s] = settled_psy[s] /\ settled_usdt'[s] = settled_usdt[s]
          /\ consumed'[s] = consumed[s]
      BY <1>2 DEF Settle
    <2> QED BY <1>1, <2>1 DEF CarefulInv
  <1>3. CASE s \in all
    <2>1. order[s] = v.order[s] /\ v.psy[s] > settled_psy[s] /\ v.psy[s] <= psy_sent[s]
      BY <1>3, FundedIsPresent DEF OrderbookInv, ProofsAreOld
    <2>2. /\ psy_sent[s] = settled_psy[s] + PsyDue(order[s])
          /\ usdt_sent[s] = settled_usdt[s] + UsdtDue(order[s])
          /\ order[s].asset \in {PSY, PUSDT}
      BY <1>1, <2>1 DEF CarefulInv, Views
    <2>3. v.psy[s] = psy_sent[s] /\ (order[s].asset = PUSDT => v.usdt[s] = usdt_sent[s])
      BY <1>3, <2>1, <2>2 DEF IsFunded
    <2>4. order[s].asset # PUSDT => usdt_sent[s] = settled_usdt[s]
      BY <1>1, <2>2 DEF UsdtDue
    <2> QED BY <1>1, <1>3, <2>1, <2>3, <2>4 DEF Settle
  <1> QED BY <1>2, <1>3

LEMMA CarefulStep == OrderbookInv /\ CarefulInv /\ [Next]_vars => CarefulInv'
  <1> SUFFICES ASSUME OrderbookInv, CarefulInv, [Next]_vars PROVE CarefulInv'
    OBVIOUS
  <1>1. CASE Escrow
    <2>1. PICK v \in views, s \in Sellers, fee \in Fees :
              \/ \E u \in Sellers : MatchOrders(v, s, u, fee)
              \/ CancelPsyOrder(v, s, fee)
              \/ CancelUsdtOrder(v, s, fee)
      BY <1>1 DEF Escrow
    <2>2. CASE \E u \in Sellers : MatchOrders(v, s, u, fee)
      <3>1. PICK u \in Sellers : MatchOrders(v, s, u, fee)
        BY <2>2
      <3>2. MatchGuard(v, s, u) /\ Settle(v, {s, u}, {u}) /\ EscrowMoves
        BY <3>1 DEF MatchOrders
      <3>3. \A x \in {s, u} : /\ v.order[x].kind = 1 /\ IsFunded(v, x)
                              /\ x \in {u} <=> v.order[x].asset = PUSDT
        BY <3>2 DEF MatchGuard, IsOpen, PSY, PUSDT
      <3> QED BY <3>2, <3>3, StackTakesDues
    <2>3. CASE CancelPsyOrder(v, s, fee)
      <3>1. Settle(v, {s}, {}) /\ EscrowMoves /\ IsFunded(v, s) /\ IsOpen(v, s, PSY)
        BY <2>3 DEF CancelPsyOrder
      <3>2. \A x \in {s} : /\ v.order[x].kind = 1 /\ IsFunded(v, x)
                           /\ x \in {} <=> v.order[x].asset = PUSDT
        BY <3>1 DEF IsOpen, PSY, PUSDT
      <3> QED BY <3>1, <3>2, StackTakesDues
    <2>4. CASE CancelUsdtOrder(v, s, fee)
      <3>1. Settle(v, {s}, {s}) /\ EscrowMoves /\ IsFunded(v, s) /\ IsOpen(v, s, PUSDT)
        BY <2>4 DEF CancelUsdtOrder
      <3>2. \A x \in {s} : /\ v.order[x].kind = 1 /\ IsFunded(v, x)
                           /\ x \in {s} <=> v.order[x].asset = PUSDT
        BY <3>1 DEF IsOpen
      <3> QED BY <3>1, <3>2, StackTakesDues
    <2> QED BY <2>1, <2>2, <2>3, <2>4
  <1>2. CASE \E s \in Sellers : Seller(s)
    <2>1. PICK s \in Sellers : Seller(s)
      BY <1>2
    <2>2. SellerMoves(s)
      BY <2>1 DEF Seller, OpenSell, OpenUnfunded, Pay, CloseOrder
    <2>3. /\ settled_psy' = settled_psy /\ settled_usdt' = settled_usdt /\ consumed' = consumed
      BY <2>2 DEF SellerMoves, cursorVars
    <2>4. \A x \in Sellers : x # s =>
              order'[x] = order[x] /\ psy_sent'[x] = psy_sent[x] /\ usdt_sent'[x] = usdt_sent[x]
      BY <2>1 DEF Seller, OpenSell, OpenUnfunded, Pay, CloseOrder, Opens, Pays, OrderbookInv, TypeOK
    <2>5. ASSUME s \notin Careless
          PROVE  \/ psy_sent'[s] = settled_psy[s] /\ usdt_sent'[s] = settled_usdt[s]
                 \/ /\ order'[s].kind = 1 /\ order'[s].nonce > consumed[s]
                    /\ order'[s].asset \in {PSY, PUSDT}
                    /\ psy_sent'[s] = settled_psy[s] + PsyDue(order'[s])
                    /\ usdt_sent'[s] = settled_usdt[s] + UsdtDue(order'[s])
      <3>0. /\ order[s] \in Slots /\ psy_sent[s] \in Nat /\ usdt_sent[s] \in Nat
            /\ settled_psy[s] \in Nat /\ settled_usdt[s] \in Nat
            /\ consumed[s] \in Nat /\ consumed[s] <= order[s].nonce
        BY DEF OrderbookInv, TypeOK, ProofsAreOld
      <3>1. CASE \E o \in Orders : OpenSell(s, o)
        <4>1. PICK o \in Orders : OpenSell(s, o)
          BY <3>1
        <4>2. /\ o.kind = 1 /\ o.nonce \in Nat /\ o.asset \in {PSY, PUSDT}
              /\ PsyDue(o) \in Nat /\ UsdtDue(o) \in Nat
          BY <4>1 DEF OrderFields, PsyDue, UsdtDue, OpenSell, Opens
        <4>3. /\ order[s].kind = 0 /\ o.nonce > order[s].nonce /\ order'[s] = o
              /\ psy_sent'[s] = psy_sent[s] + PsyDue(o)
              /\ usdt_sent'[s] = usdt_sent[s] + UsdtDue(o)
          BY <4>1 DEF OpenSell, Opens, Pays, OrderbookInv, TypeOK
        <4>4. psy_sent[s] = settled_psy[s] /\ usdt_sent[s] = settled_usdt[s]
          BY <2>5, <4>3 DEF CarefulInv
        <4>5. o.nonce > consumed[s]
          BY <3>0, <4>2, <4>3 DEF Slots
        <4> QED BY <4>2, <4>3, <4>4, <4>5
      <3>2. CASE CloseOrder(s)
        <4>1. psy_sent[s] <= settled_psy[s] /\ psy_sent' = psy_sent /\ usdt_sent' = usdt_sent
          BY <3>2 DEF CloseOrder, NothingUnclaimed, OrderbookInv, ProofsAreOld
        <4>2. PsyDue(order[s]) > 0 /\ PsyDue(order[s]) \in Nat
          BY <3>0, Dues
        <4> QED BY <2>5, <3>0, <4>1, <4>2 DEF CarefulInv
      <3> QED BY <2>1, <2>5, <3>1, <3>2 DEF Seller, OpenUnfunded, Pay
    <2> QED BY <2>3, <2>4, <2>5 DEF CarefulInv
  <1>3. CASE NewCheckpoint \/ UNCHANGED vars
    BY <1>3 DEF CarefulInv, NewCheckpoint, vars, sellerVars, cursorVars
  <1> QED BY <1>1, <1>2, <1>3 DEF Next

(* A seller that uses the clients' stacks can always get out of its order: *)
(* it was settled, or the exact refund is possible now.                    *)
THEOREM CarefulSellersGetOut == Spec => []NothingStuck
  <1>1. Init => CarefulInv
    BY DEF Init, CarefulInv, Zero
  <1>2. Spec => []CarefulInv
    BY <1>1, CarefulStep, OrderbookCorrect, PTL DEF Spec
  <1> QED BY <1>2, OrderbookCorrect, CarefulIsNotStuck, PTL

-----------------------------------------------------------------------------
(* What the mapping shows the exchange.                                    *)
PsyDeposit == [x \in Sellers |-> psy_sent[x] - settled_psy[x]]
UsdtDeposit == [x \in Sellers |-> usdt_sent[x] - settled_usdt[x]]

(* A function that differs from another at one argument, or at two.        *)
LEMMA OneUpdate ==
    ASSUME NEW S, NEW f, NEW g, NEW s \in S,
           f = [x \in S |-> f[x]], g = [x \in S |-> g[x]],
           \A x \in S \ {s} : g[x] = f[x]
    PROVE  g = [f EXCEPT ![s] = g[s]]
  OBVIOUS

LEMMA TwoUpdates ==
    ASSUME NEW S, NEW f, NEW g, NEW s \in S, NEW t \in S, s # t,
           f = [x \in S |-> f[x]], g = [x \in S |-> g[x]],
           \A x \in S \ {s, t} : g[x] = f[x]
    PROVE  g = [f EXCEPT ![s] = g[s], ![t] = g[t]]
  OBVIOUS

LEMMA DepositsNow ==
    ASSUME OrderbookInv, NEW x \in Sellers
    PROVE  /\ PsyDeposit[x] = psy_sent[x] - settled_psy[x] /\ PsyDeposit[x] \in Int
           /\ UsdtDeposit[x] = usdt_sent[x] - settled_usdt[x] /\ UsdtDeposit[x] \in Int
           /\ PsyDeposit'[x] = psy_sent'[x] - settled_psy'[x]
           /\ UsdtDeposit'[x] = usdt_sent'[x] - settled_usdt'[x]
  <1>1. /\ psy_sent[x] \in Nat /\ settled_psy[x] \in Nat
        /\ usdt_sent[x] \in Nat /\ settled_usdt[x] \in Nat
    BY DEF OrderbookInv, TypeOK
  <1> QED BY <1>1 DEF PsyDeposit, UsdtDeposit

LEMMA DepositsAreFunctions ==
    /\ PsyDeposit = [x \in Sellers |-> PsyDeposit[x]]
    /\ UsdtDeposit = [x \in Sellers |-> UsdtDeposit[x]]
    /\ PsyDeposit' = [x \in Sellers |-> PsyDeposit'[x]]
    /\ UsdtDeposit' = [x \in Sellers |-> UsdtDeposit'[x]]
  BY DEF PsyDeposit, UsdtDeposit

(* A seller that pays, and fills an inactive slot or leaves it as it is.   *)
LEMMA PaymentIsDeposit ==
    ASSUME OrderbookInv, NEW s \in Sellers, NEW psy \in Nat, NEW usdt \in Nat,
           Pays(s, psy, usdt), SellerMoves(s),
           \/ order' = order
           \/ /\ order[s].kind = 0
              /\ order' = [order EXCEPT ![s] = order'[s]]
              /\ order'[s].nonce > order[s].nonce
    PROVE  Exchange!Deposit(s)
  <1>1. /\ settled_psy' = settled_psy /\ settled_usdt' = settled_usdt
        /\ UNCHANGED <<psy_paid, usdt_paid, consumed>>
    BY DEF SellerMoves, tokenVars, cursorVars
  <1>2. \A x \in Sellers :
            /\ psy_sent[x] \in Nat /\ settled_psy[x] \in Nat
            /\ usdt_sent[x] \in Nat /\ settled_usdt[x] \in Nat
            /\ psy_sent'[x] = IF x = s THEN psy_sent[x] + psy ELSE psy_sent[x]
            /\ usdt_sent'[x] = IF x = s THEN usdt_sent[x] + usdt ELSE usdt_sent[x]
    BY DEF Pays, OrderbookInv, TypeOK
  <1>3. /\ PsyDeposit'[s] >= PsyDeposit[s] /\ UsdtDeposit'[s] >= UsdtDeposit[s]
        /\ \A x \in Sellers \ {s} : PsyDeposit'[x] = PsyDeposit[x] /\ UsdtDeposit'[x] = UsdtDeposit[x]
    BY <1>1, <1>2 DEF PsyDeposit, UsdtDeposit
  <1>4. /\ PsyDeposit' = [PsyDeposit EXCEPT ![s] = PsyDeposit'[s]]
        /\ UsdtDeposit' = [UsdtDeposit EXCEPT ![s] = UsdtDeposit'[s]]
    BY <1>3, DepositsAreFunctions, OneUpdate
  <1> QED BY <1>1, <1>3, <1>4 DEF Exchange!Deposit, PsyDeposit, UsdtDeposit

LEMMA CloseIsLeave ==
    ASSUME OrderbookInv, NEW s \in Sellers, CloseOrder(s)
    PROVE  Exchange!Leave(s)
  <1>1. PICK r \in seen[s] : NothingUnclaimed(s, r)
    BY DEF CloseOrder
  <1>2. /\ r.psy <= settled_psy[s] /\ settled_psy[s] <= psy_sent[s]
        /\ r.usdt <= settled_usdt[s] /\ settled_usdt[s] <= usdt_sent[s]
    BY DEF OrderbookInv, ProofsAreOld
  <1>3. /\ psy_sent[s] \in Nat /\ settled_psy[s] \in Nat /\ r.psy \in Nat
        /\ usdt_sent[s] \in Nat /\ settled_usdt[s] \in Nat /\ r.usdt \in Nat
    BY DEF OrderbookInv, TypeOK, Receipts
  <1>4. /\ psy_sent[s] - settled_psy[s] = 0
        /\ order[s].asset = PUSDT => usdt_sent[s] - settled_usdt[s] = 0
    BY <1>1, <1>2, <1>3 DEF NothingUnclaimed
  <1>5. /\ order[s].kind = 1 /\ order' = [order EXCEPT ![s].kind = 0]
        /\ UNCHANGED <<psy_sent, usdt_sent, settled_psy, settled_usdt, psy_paid, usdt_paid, consumed>>
    BY DEF CloseOrder, SellerMoves, tokenVars, cursorVars
  <1> QED BY <1>4, <1>5 DEF Exchange!Leave, Exchange!Keeps, Exchange!PUSDT, PUSDT

LEMMA SellerRefines ==
    ASSUME OrderbookInv, NEW s \in Sellers, Seller(s)
    PROVE  Exchange!Deposit(s) \/ Exchange!Leave(s)
  <1>1. CASE \E o \in Orders : OpenSell(s, o)
    <2>1. PICK o \in Orders : OpenSell(s, o)
      BY <1>1
    <2>2. PsyDue(o) \in Nat /\ UsdtDue(o) \in Nat
      BY DEF OrderFields, PsyDue, UsdtDue
    <2>3. /\ Pays(s, PsyDue(o), UsdtDue(o)) /\ SellerMoves(s)
          /\ order[s].kind = 0 /\ order' = [order EXCEPT ![s] = o] /\ o.nonce > order[s].nonce
      BY <2>1 DEF OpenSell, Opens
    <2>4. order' = [order EXCEPT ![s] = order'[s]] /\ order'[s] = o
      BY <2>3 DEF OrderbookInv, TypeOK
    <2> QED BY <2>2, <2>3, <2>4, PaymentIsDeposit
  <1>2. CASE \E o \in Orders : OpenUnfunded(s, o)
    <2>1. PICK o \in Orders : OpenUnfunded(s, o)
      BY <1>2
    <2>2. /\ UNCHANGED <<psy_sent, usdt_sent>> /\ SellerMoves(s)
          /\ order[s].kind = 0 /\ order' = [order EXCEPT ![s] = o] /\ o.nonce > order[s].nonce
      BY <2>1 DEF OpenUnfunded, Opens
    <2>3. order' = [order EXCEPT ![s] = order'[s]] /\ order'[s] = o
      BY <2>2 DEF OrderbookInv, TypeOK
    <2>4. Pays(s, 0, 0)
      <3>1. /\ psy_sent \in [Sellers -> Nat] /\ psy_sent[s] + 0 = psy_sent[s]
            /\ usdt_sent \in [Sellers -> Nat] /\ usdt_sent[s] + 0 = usdt_sent[s]
        BY DEF OrderbookInv, TypeOK
      <3> QED BY <2>2, <3>1 DEF Pays
    <2>5. 0 \in Nat
      OBVIOUS
    <2>6. /\ order[s].kind = 0 /\ order' = [order EXCEPT ![s] = order'[s]]
          /\ order'[s].nonce > order[s].nonce
      BY <2>2, <2>3
    <2>7. SellerMoves(s)
      BY <2>2
    <2> QED BY <2>4, <2>5, <2>6, <2>7, PaymentIsDeposit
  <1>3. CASE \E payment \in Payments : Pay(s, payment)
    <2>1. PICK payment \in Payments : Pay(s, payment)
      BY <1>3
    <2>2. payment.psy \in Nat /\ payment.usdt \in Nat
      OBVIOUS
    <2>3. Pays(s, payment.psy, payment.usdt) /\ SellerMoves(s) /\ order' = order
      BY <2>1 DEF Pay
    <2> QED BY <2>2, <2>3, PaymentIsDeposit
  <1>4. CASE CloseOrder(s)
    BY <1>4, CloseIsLeave
  <1> QED BY <1>1, <1>2, <1>3, <1>4 DEF Seller

(* What a stack does to the deposits of the moment: the orders of its view *)
(* are in their slots, and it takes what they are due.                     *)
PsyTaken(all, s) == IF s \in all THEN PsyDue(order[s]) ELSE 0
UsdtTaken(usdtSide, s) == IF s \in usdtSide THEN UsdtDue(order[s]) ELSE 0

Takes(v, all, usdtSide) ==
    /\ order' = order
    /\ consumed' = [s \in Sellers |-> IF s \in all THEN order[s].nonce ELSE consumed[s]]
    /\ \A s \in all :
        /\ order[s] = v.order[s] /\ order[s] \in Slots
        /\ psy_sent[s] - settled_psy[s] >= PsyDue(order[s])
    /\ \A s \in usdtSide : usdt_sent[s] - settled_usdt[s] >= UsdtDue(order[s])
    /\ \A s \in Sellers :
        /\ psy_sent'[s] - settled_psy'[s] = psy_sent[s] - settled_psy[s] - PsyTaken(all, s)
        /\ usdt_sent'[s] - settled_usdt'[s] = usdt_sent[s] - settled_usdt[s] - UsdtTaken(usdtSide, s)

LEMMA StackTakes ==
    ASSUME OrderbookInv, NEW v \in views, NEW all \in SUBSET Sellers, NEW usdtSide \in SUBSET all,
           \A s \in all : v.order[s].kind = 1 /\ IsFunded(v, s),
           \A s \in usdtSide : v.order[s].asset = PUSDT,
           Settle(v, all, usdtSide), EscrowMoves
    PROVE  Takes(v, all, usdtSide)
  <1>1. order' = order /\ psy_sent' = psy_sent /\ usdt_sent' = usdt_sent
    BY DEF EscrowMoves, sellerVars
  <1>2. \A s \in all : order[s] = v.order[s] /\ order[s] \in Slots
    BY FundedIsPresent DEF OrderbookInv, TypeOK
  <1>3. \A s \in all : v.psy[s] = settled_psy[s] + PsyDue(order[s])
    BY <1>2 DEF IsFunded
  <1>4. \A s \in usdtSide : v.usdt[s] = settled_usdt[s] + UsdtDue(order[s])
    BY <1>2 DEF IsFunded
  <1>5. consumed' = [s \in Sellers |-> IF s \in all THEN order[s].nonce ELSE consumed[s]]
    BY <1>2 DEF Settle
  <1>6. \A s \in Sellers :
            /\ psy_sent[s] \in Nat /\ settled_psy[s] \in Nat
            /\ usdt_sent[s] \in Nat /\ settled_usdt[s] \in Nat
            /\ v.psy[s] <= psy_sent[s] /\ v.usdt[s] <= usdt_sent[s]
    BY DEF OrderbookInv, TypeOK, ProofsAreOld
  <1>7. \A s \in all : PsyDue(order[s]) \in Nat /\ UsdtDue(order[s]) \in Nat
    BY <1>2, Dues
  <1>8. \A s \in all : psy_sent[s] - settled_psy[s] >= PsyDue(order[s])
    <2> SUFFICES ASSUME NEW s \in all PROVE psy_sent[s] - settled_psy[s] >= PsyDue(order[s])
      OBVIOUS
    <2>1. v.psy[s] = settled_psy[s] + PsyDue(order[s]) /\ PsyDue(order[s]) \in Nat
      BY <1>3, <1>7
    <2>2. psy_sent[s] \in Nat /\ settled_psy[s] \in Nat /\ v.psy[s] <= psy_sent[s]
      BY <1>6
    <2> QED BY <2>1, <2>2
  <1>9. \A s \in usdtSide : usdt_sent[s] - settled_usdt[s] >= UsdtDue(order[s])
    <2> SUFFICES ASSUME NEW s \in usdtSide PROVE usdt_sent[s] - settled_usdt[s] >= UsdtDue(order[s])
      OBVIOUS
    <2>1. v.usdt[s] = settled_usdt[s] + UsdtDue(order[s]) /\ UsdtDue(order[s]) \in Nat
      BY <1>4, <1>7
    <2>2. usdt_sent[s] \in Nat /\ settled_usdt[s] \in Nat /\ v.usdt[s] <= usdt_sent[s]
      BY <1>6
    <2> QED BY <2>1, <2>2
  <1>10. ASSUME NEW s \in Sellers
         PROVE  psy_sent'[s] - settled_psy'[s] = psy_sent[s] - settled_psy[s] - PsyTaken(all, s)
    <2>1. settled_psy'[s] = IF s \in all THEN v.psy[s] ELSE settled_psy[s]
      BY DEF Settle
    <2> QED BY <1>1, <1>3, <1>6, <1>7, <2>1 DEF PsyTaken
  <1>11. ASSUME NEW s \in Sellers
         PROVE  usdt_sent'[s] - settled_usdt'[s] = usdt_sent[s] - settled_usdt[s] - UsdtTaken(usdtSide, s)
    <2>1. settled_usdt'[s] = IF s \in usdtSide THEN v.usdt[s] ELSE settled_usdt[s]
      BY DEF Settle
    <2> QED BY <1>1, <1>4, <1>6, <1>7, <2>1 DEF UsdtTaken
  <1> QED BY <1>1, <1>2, <1>5, <1>8, <1>9, <1>10, <1>11 DEF Takes

LEMMA MatchIsSwap ==
    ASSUME OrderbookInv, NEW v \in views, NEW p \in Sellers, NEW u \in Sellers,
           NEW fee \in Fees, MatchOrders(v, p, u, fee)
    PROVE  Exchange!Swap(p, u)
  <1>1. /\ MatchGuard(v, p, u) /\ Settle(v, {p, u}, {u}) /\ EscrowMoves
        /\ psy_paid' = [psy_paid EXCEPT ![u] = @ + v.order[p].amount + FeeEscrow]
        /\ usdt_paid' = [usdt_paid EXCEPT ![p] = @ + v.order[u].amount]
    BY DEF MatchOrders
  <1>2. /\ p # u /\ IsFunded(v, p) /\ IsFunded(v, u)
        /\ v.order[p].kind = 1 /\ v.order[p].asset = PSY /\ v.order[p].nonce > consumed[p]
        /\ v.order[u].kind = 1 /\ v.order[u].asset = PUSDT /\ v.order[u].nonce > consumed[u]
        /\ Crosses(v.order[p], v.order[u])
    BY <1>1 DEF MatchGuard, IsOpen
  <1>3. /\ \A s \in {p, u} : v.order[s].kind = 1 /\ IsFunded(v, s)
        /\ \A s \in {u} : v.order[s].asset = PUSDT
    BY <1>2
  <1>4. Takes(v, {p, u}, {u})
    BY <1>1, <1>3, StackTakes
  <1>5. /\ order[p] = v.order[p] /\ order[u] = v.order[u]
        /\ PsyDue(order[p]) = order[p].amount + FeeEscrow
        /\ PsyDue(order[u]) = FeeEscrow /\ UsdtDue(order[u]) = order[u].amount
        /\ order[p].amount \in Nat /\ order[u].amount \in Nat
    BY <1>2, <1>4 DEF Takes, PsyDue, UsdtDue, Slots, PSY, PUSDT
  <1>6. /\ PsyDeposit[p] \in Int /\ PsyDeposit[u] \in Int /\ UsdtDeposit[u] \in Int
        /\ PsyDeposit[p] >= order[p].amount + FeeEscrow
        /\ PsyDeposit[u] >= FeeEscrow /\ UsdtDeposit[u] >= order[u].amount
    BY <1>4, <1>5, DepositsNow DEF Takes
  <1>7. \A x \in Sellers :
            /\ PsyDeposit'[x] = PsyDeposit[x] - PsyTaken({p, u}, x)
            /\ UsdtDeposit'[x] = UsdtDeposit[x] - UsdtTaken({u}, x)
            /\ PsyDeposit[x] \in Int /\ UsdtDeposit[x] \in Int
    BY <1>4, DepositsNow DEF Takes
  <1>8. PsyDeposit' = [PsyDeposit EXCEPT ![p] = @ - order[p].amount - FeeEscrow, ![u] = @ - FeeEscrow]
    <2>1. /\ PsyDeposit'[p] = PsyDeposit[p] - order[p].amount - FeeEscrow
          /\ PsyDeposit'[u] = PsyDeposit[u] - FeeEscrow
          /\ \A x \in Sellers \ {p, u} : PsyDeposit'[x] = PsyDeposit[x]
      BY <1>5, <1>7 DEF PsyTaken
    <2>2. PsyDeposit' = [PsyDeposit EXCEPT ![p] = PsyDeposit'[p], ![u] = PsyDeposit'[u]]
      BY <1>2, <2>1, DepositsAreFunctions, TwoUpdates
    <2> QED BY <1>2, <2>1, <2>2
  <1>9. UsdtDeposit' = [UsdtDeposit EXCEPT ![u] = @ - order[u].amount]
    <2>1. /\ UsdtDeposit'[u] = UsdtDeposit[u] - order[u].amount
          /\ \A x \in Sellers \ {u} : UsdtDeposit'[x] = UsdtDeposit[x]
      BY <1>5, <1>7 DEF UsdtTaken
    <2>2. UsdtDeposit' = [UsdtDeposit EXCEPT ![u] = UsdtDeposit'[u]]
      BY <2>1, DepositsAreFunctions, OneUpdate
    <2> QED BY <2>1, <2>2
  <1>10. order' = order /\ consumed' = [consumed EXCEPT ![p] = order[p].nonce, ![u] = order[u].nonce]
    BY <1>2, <1>4 DEF Takes, OrderbookInv, TypeOK
  <1>11. Exchange!Live(p, Exchange!PSY) /\ Exchange!Live(u, Exchange!PUSDT)
    BY <1>2, <1>5 DEF Exchange!Live, Exchange!PSY, Exchange!PUSDT, PSY, PUSDT
  <1>12. order[u].amount >= order[p].minBuy /\ order[p].amount >= order[u].minBuy
    BY <1>2, <1>5 DEF Crosses
  <1>13. /\ psy_paid' = [psy_paid EXCEPT ![u] = @ + order[p].amount + FeeEscrow]
         /\ usdt_paid' = [usdt_paid EXCEPT ![p] = @ + order[u].amount]
    BY <1>1, <1>5
  <1> QED BY <1>6, <1>8, <1>9, <1>10, <1>11, <1>12, <1>13
          DEF Exchange!Swap, PsyDeposit, UsdtDeposit

LEMMA CancelPsyIsGiveBack ==
    ASSUME OrderbookInv, NEW v \in views, NEW s \in Sellers, NEW fee \in Fees,
           CancelPsyOrder(v, s, fee)
    PROVE  Exchange!GiveBack(s)
  <1>1. /\ v.order[s].kind = 1 /\ v.order[s].asset = PSY /\ v.order[s].nonce > consumed[s]
        /\ IsFunded(v, s) /\ Settle(v, {s}, {}) /\ EscrowMoves
        /\ psy_paid' = [psy_paid EXCEPT ![s] = @ + v.order[s].amount] /\ usdt_paid' = usdt_paid
    BY DEF CancelPsyOrder, IsOpen
  <1>2. \A x \in {s} : v.order[x].kind = 1 /\ IsFunded(v, x)
    BY <1>1
  <1>3. Takes(v, {s}, {})
    BY <1>1, <1>2, StackTakes
  <1>4. /\ order[s] = v.order[s] /\ order[s].amount \in Nat
        /\ PsyDue(order[s]) = order[s].amount + FeeEscrow
    BY <1>1, <1>3 DEF Takes, PsyDue, Slots
  <1>5. \A x \in Sellers :
            /\ PsyDeposit'[x] = PsyDeposit[x] - PsyTaken({s}, x)
            /\ UsdtDeposit'[x] = UsdtDeposit[x]
            /\ PsyDeposit[x] \in Int /\ UsdtDeposit[x] \in Int
    <2> SUFFICES ASSUME NEW x \in Sellers
                 PROVE  /\ PsyDeposit'[x] = PsyDeposit[x] - PsyTaken({s}, x)
                        /\ UsdtDeposit'[x] = UsdtDeposit[x]
                        /\ PsyDeposit[x] \in Int /\ UsdtDeposit[x] \in Int
      OBVIOUS
    <2>1. /\ PsyDeposit'[x] = PsyDeposit[x] - PsyTaken({s}, x)
          /\ UsdtDeposit'[x] = UsdtDeposit[x] - UsdtTaken({}, x)
          /\ PsyDeposit[x] \in Int /\ UsdtDeposit[x] \in Int
      BY <1>3, DepositsNow DEF Takes
    <2>2. UsdtTaken({}, x) = 0
      BY DEF UsdtTaken
    <2> QED BY <2>1, <2>2
  <1>6. PsyDeposit[s] >= order[s].amount + FeeEscrow
    BY <1>3, <1>4 DEF Takes, PsyDeposit
  <1>7. PsyDeposit' = [PsyDeposit EXCEPT ![s] = @ - order[s].amount - FeeEscrow]
    <2>1. /\ PsyDeposit'[s] = PsyDeposit[s] - order[s].amount - FeeEscrow
          /\ \A x \in Sellers \ {s} : PsyDeposit'[x] = PsyDeposit[x]
      BY <1>4, <1>5 DEF PsyTaken
    <2>2. PsyDeposit' = [PsyDeposit EXCEPT ![s] = PsyDeposit'[s]]
      BY <2>1, DepositsAreFunctions, OneUpdate
    <2> QED BY <2>1, <2>2
  <1>8. UsdtDeposit' = UsdtDeposit
    BY <1>5, DepositsAreFunctions
  <1>9. order' = order /\ consumed' = [consumed EXCEPT ![s] = order[s].nonce]
    BY <1>3 DEF Takes, OrderbookInv, TypeOK
  <1>10. Exchange!Live(s, Exchange!PSY)
    BY <1>1, <1>4 DEF Exchange!Live, Exchange!PSY, PSY
  <1>11. psy_paid' = [psy_paid EXCEPT ![s] = @ + order[s].amount] /\ usdt_paid' = usdt_paid
    BY <1>1, <1>4
  <1> QED BY <1>6, <1>7, <1>8, <1>9, <1>10, <1>11 DEF Exchange!GiveBack, PsyDeposit, UsdtDeposit

LEMMA CancelUsdtIsGiveBack ==
    ASSUME OrderbookInv, NEW v \in views, NEW s \in Sellers, NEW fee \in Fees,
           CancelUsdtOrder(v, s, fee)
    PROVE  Exchange!GiveBack(s)
  <1>1. /\ v.order[s].kind = 1 /\ v.order[s].asset = PUSDT /\ v.order[s].nonce > consumed[s]
        /\ IsFunded(v, s) /\ Settle(v, {s}, {s}) /\ EscrowMoves
        /\ usdt_paid' = [usdt_paid EXCEPT ![s] = @ + v.order[s].amount] /\ psy_paid' = psy_paid
    BY DEF CancelUsdtOrder, IsOpen
  <1>2. \A x \in {s} : v.order[x].kind = 1 /\ IsFunded(v, x) /\ v.order[x].asset = PUSDT
    BY <1>1
  <1>3. Takes(v, {s}, {s})
    BY <1>1, <1>2, StackTakes
  <1>4. /\ order[s] = v.order[s] /\ order[s].amount \in Nat
        /\ PsyDue(order[s]) = FeeEscrow /\ UsdtDue(order[s]) = order[s].amount
    BY <1>1, <1>3 DEF Takes, PsyDue, UsdtDue, Slots, PSY, PUSDT
  <1>5. \A x \in Sellers :
            /\ PsyDeposit'[x] = PsyDeposit[x] - PsyTaken({s}, x)
            /\ UsdtDeposit'[x] = UsdtDeposit[x] - UsdtTaken({s}, x)
            /\ PsyDeposit[x] \in Int /\ UsdtDeposit[x] \in Int
    BY <1>3, DepositsNow DEF Takes
  <1>6. PsyDeposit[s] >= FeeEscrow /\ UsdtDeposit[s] >= order[s].amount
    BY <1>3, <1>4 DEF Takes, PsyDeposit, UsdtDeposit
  <1>7. /\ PsyDeposit'[s] = PsyDeposit[s] - FeeEscrow
        /\ UsdtDeposit'[s] = UsdtDeposit[s] - order[s].amount
        /\ \A x \in Sellers \ {s} : PsyDeposit'[x] = PsyDeposit[x] /\ UsdtDeposit'[x] = UsdtDeposit[x]
    BY <1>4, <1>5 DEF PsyTaken, UsdtTaken
  <1>8. /\ PsyDeposit' = [PsyDeposit EXCEPT ![s] = PsyDeposit'[s]]
        /\ UsdtDeposit' = [UsdtDeposit EXCEPT ![s] = UsdtDeposit'[s]]
    BY <1>7, DepositsAreFunctions, OneUpdate
  <1>9. /\ PsyDeposit' = [PsyDeposit EXCEPT ![s] = @ - FeeEscrow]
        /\ UsdtDeposit' = [UsdtDeposit EXCEPT ![s] = @ - order[s].amount]
    BY <1>7, <1>8
  <1>10. order' = order /\ consumed' = [consumed EXCEPT ![s] = order[s].nonce]
    BY <1>3 DEF Takes, OrderbookInv, TypeOK
  <1>11. Exchange!Live(s, Exchange!PUSDT)
    BY <1>1, <1>4 DEF Exchange!Live, Exchange!PUSDT, PUSDT
  <1>12. usdt_paid' = [usdt_paid EXCEPT ![s] = @ + order[s].amount] /\ psy_paid' = psy_paid
    BY <1>1, <1>4
  <1> QED BY <1>6, <1>9, <1>10, <1>11, <1>12 DEF Exchange!GiveBack, PsyDeposit, UsdtDeposit

LEMMA StepRefines ==
    OrderbookInv /\ [Next]_vars => [Exchange!ExchangeNext]_(Exchange!exchangeVars)
  <1> SUFFICES ASSUME OrderbookInv, [Next]_vars
               PROVE  [Exchange!ExchangeNext]_(Exchange!exchangeVars)
    OBVIOUS
  <1>1. CASE \E s \in Sellers : Seller(s)
    BY <1>1, SellerRefines DEF Exchange!ExchangeNext
  <1>2. CASE Escrow
    <2>1. PICK v \in views, s \in Sellers, fee \in Fees :
              \/ \E u \in Sellers : MatchOrders(v, s, u, fee)
              \/ CancelPsyOrder(v, s, fee)
              \/ CancelUsdtOrder(v, s, fee)
      BY <1>2 DEF Escrow
    <2> QED BY <2>1, MatchIsSwap, CancelPsyIsGiveBack, CancelUsdtIsGiveBack DEF Exchange!ExchangeNext
  <1>3. CASE NewCheckpoint \/ UNCHANGED vars
    <2>1. UNCHANGED <<order, psy_sent, usdt_sent, settled_psy, settled_usdt,
                      psy_paid, usdt_paid, consumed>>
      BY <1>3 DEF NewCheckpoint, vars, sellerVars, tokenVars, cursorVars
    <2> QED BY <2>1 DEF Exchange!exchangeVars
  <1> QED BY <1>1, <1>2, <1>3 DEF Next

LEMMA InitRefines == Init => Exchange!ExchangeInit
  BY DEF Init, NoOrder, Zero, Exchange!ExchangeInit

(* Acting on proofs of any age implements the exchange that acts on the    *)
(* orders and deposits of the moment, for any number of sellers.           *)
THEOREM RefinesExchange == Spec => ImplementsExchange
  BY InitRefines, StepRefines, OrderbookCorrect, PTL
     DEF Spec, ImplementsExchange, Exchange!ExchangeSpec

-----------------------------------------------------------------------------
(* The limiter, which the scans use twice: a step of it as a change of     *)
(* three values, the slots n, the queue q and the clients' states st.      *)
Members(q) == {q[i] : i \in DOMAIN q}
HoldersOf(C, st) == {c \in C : st[c] \in {"started", "running"}}
WaitersOf(C, st) == {c \in C : st[c] = "waiting"}

ClientStates == {"resting", "waiting", "started", "running"}

Exact(C, limit, n, q, st) ==
    /\ n = Cardinality(HoldersOf(C, st)) /\ n <= limit
    /\ q # <<>> => n = limit
    /\ Members(q) = WaitersOf(C, st)
    /\ Len(q) = Cardinality(Members(q))

(* The same, inductively: nobody is in the queue twice.                    *)
Sound(C, limit, n, q, st) ==
    /\ st \in [C -> ClientStates] /\ q \in Seq(C)
    /\ n = Cardinality(HoldersOf(C, st)) /\ n <= limit
    /\ q # <<>> => n = limit
    /\ Members(q) = WaitersOf(C, st)
    /\ \A i, j \in 1..Len(q) : q[i] = q[j] => i = j

(* Other clients stay, but that one in the queue may be handed a slot.     *)
OthersServed(C, st, to, c) ==
    \A d \in C \ {c} : to[d] = st[d] \/ (st[d] = "waiting" /\ to[d] = "started")

LEMMA QueueOfAll ==
    ASSUME NEW C, NEW q \in Seq(C), \A i, j \in 1..Len(q) : q[i] = q[j] => i = j
    PROVE  Len(q) = Cardinality(Members(q))
<1>1. Len(q) \in Nat /\ DOMAIN q = 1..Len(q)
  OBVIOUS
<1>2. q \in [1..Len(q) -> Members(q)]
  BY <1>1 DEF Members
<1>3. q \in Bijection(1..Len(q), Members(q))
  <2>1. IsInjective(q)
    BY <1>1 DEF IsInjective
  <2>2. \A t \in Members(q) : \E i \in 1..Len(q) : q[i] = t
    BY <1>1 DEF Members
  <2> QED BY <1>2, <2>1, <2>2 DEF Bijection, Injection, Surjection
<1>4. ExistsBijection(1..Len(q), Members(q))
  BY <1>3 DEF ExistsBijection
<1>5. Cardinality(Members(q)) = Len(q)
  BY <1>1, <1>4, FS_CountingElements
<1> QED BY <1>5

LEMMA SoundIsExact ==
    ASSUME NEW C, NEW limit, NEW n, NEW q, NEW st, Sound(C, limit, n, q, st)
    PROVE  Exact(C, limit, n, q, st)
  BY QueueOfAll DEF Sound, Exact

LEMMA SoundAtFirst ==
    ASSUME NEW C, NEW limit \in Nat, NEW st, st = [c \in C |-> "resting"]
    PROVE  Sound(C, limit, 0, <<>>, st)
<1>1. HoldersOf(C, st) = {} /\ WaitersOf(C, st) = {} /\ st \in [C -> ClientStates]
  BY DEF HoldersOf, WaitersOf, ClientStates
<1>2. Members(<<>>) = {} /\ <<>> \in Seq(C) /\ 1..Len(<<>>) = {}
  BY DEF Members
<1>3. Cardinality({}) = 0 /\ 0 <= limit
  BY FS_EmptySet
<1> QED BY <1>1, <1>2, <1>3 DEF Sound

MovedTo(st, c, to) == [st EXCEPT ![c] = to]

LEMMA TakeSound ==
    ASSUME NEW C, IsFiniteSet(C), NEW limit \in Nat, NEW n, NEW q, NEW st,
           Sound(C, limit, n, q, st), NEW c \in C, n < limit, st[c] = "resting"
    PROVE  Sound(C, limit, n + 1, q, MovedTo(st, c, "started"))
<1> DEFINE to == MovedTo(st, c, "started")
           H == HoldersOf(C, st)
<1>1. IsFiniteSet(H) /\ n = Cardinality(H) /\ n \in Nat
  BY FS_Subset, FS_CardinalityType DEF HoldersOf, Sound
<1>2. q = <<>>
  BY <1>1 DEF Sound
<1>3. /\ to \in [C -> ClientStates] /\ WaitersOf(C, to) = WaitersOf(C, st)
      /\ HoldersOf(C, to) = H \cup {c} /\ c \notin H
  BY DEF MovedTo, Sound, ClientStates, WaitersOf, HoldersOf
<1> HIDE DEF to, H
<1>4. Cardinality(HoldersOf(C, to)) = n + 1 /\ n + 1 <= limit
  <2>1. Cardinality(H \cup {c}) = n + 1
    BY <1>1, <1>3, FS_AddElement
  <2> QED BY <1>1, <1>3, <2>1
<1> QED BY <1>2, <1>3, <1>4 DEF Sound, to

LEMMA WaitSound ==
    ASSUME NEW C, IsFiniteSet(C), NEW limit \in Nat, NEW n, NEW q, NEW st,
           Sound(C, limit, n, q, st), NEW c \in C, n >= limit, st[c] = "resting"
    PROVE  Sound(C, limit, n, Append(q, c), MovedTo(st, c, "waiting"))
<1> DEFINE to == MovedTo(st, c, "waiting")
           longer == Append(q, c)
<1>1. n = limit
  <2>1. IsFiniteSet(HoldersOf(C, st))
    BY FS_Subset DEF HoldersOf
  <2>2. n \in Nat /\ n <= limit
    BY <2>1, FS_CardinalityType DEF Sound
  <2> QED BY <2>2
<1>2. /\ to \in [C -> ClientStates] /\ WaitersOf(C, to) = WaitersOf(C, st) \cup {c}
      /\ HoldersOf(C, to) = HoldersOf(C, st) /\ c \notin WaitersOf(C, st)
  BY DEF MovedTo, Sound, ClientStates, WaitersOf, HoldersOf
<1>3. q \in Seq(C) /\ c \notin Members(q)
  BY <1>2 DEF Sound
<1>4. /\ longer \in Seq(C) /\ Len(longer) = Len(q) + 1 /\ Len(q) \in Nat
      /\ \A i \in 1..Len(q) : longer[i] = q[i] /\ longer[Len(q) + 1] = c
  BY <1>3
<1>5. longer[Len(q) + 1] = c /\ DOMAIN longer = 1..Len(longer) /\ DOMAIN q = 1..Len(q)
  BY <1>3
<1> HIDE DEF longer
<1>6. Members(longer) = Members(q) \cup {c}
  <2>1. 1..Len(longer) = 1..Len(q) \cup {Len(q) + 1}
    BY <1>4
  <2> QED BY <1>4, <1>5, <2>1 DEF Members
<1>7. \A i, j \in 1..Len(longer) : longer[i] = longer[j] => i = j
  <2>1. \A i \in 1..Len(q) : q[i] # c
    BY <1>3, <1>5 DEF Members
  <2>2. \A i \in 1..Len(longer) : i \in 1..Len(q) \/ i = Len(q) + 1
    BY <1>4
  <2>3. \A i, j \in 1..Len(q) : q[i] = q[j] => i = j
    BY DEF Sound
  <2> QED BY <1>4, <1>5, <2>1, <2>2, <2>3
<1> HIDE DEF to
<1> QED BY <1>1, <1>2, <1>4, <1>6, <1>7 DEF Sound, to, longer

LEMMA GoSound ==
    ASSUME NEW C, NEW limit \in Nat, NEW n, NEW q, NEW st,
           Sound(C, limit, n, q, st), NEW c \in C, st[c] = "started"
    PROVE  Sound(C, limit, n, q, MovedTo(st, c, "running"))
<1> DEFINE to == MovedTo(st, c, "running")
<1>1. /\ to \in [C -> ClientStates] /\ WaitersOf(C, to) = WaitersOf(C, st)
      /\ HoldersOf(C, to) = HoldersOf(C, st)
  BY DEF MovedTo, Sound, ClientStates, WaitersOf, HoldersOf
<1> HIDE DEF to
<1> QED BY <1>1 DEF Sound, to

LEMMA FreeSound ==
    ASSUME NEW C, IsFiniteSet(C), NEW limit \in Nat, NEW n, NEW st,
           Sound(C, limit, n, <<>>, st), NEW c \in C, st[c] = "running"
    PROVE  Sound(C, limit, n - 1, <<>>, MovedTo(st, c, "resting"))
<1> DEFINE to == MovedTo(st, c, "resting")
           H == HoldersOf(C, st)
<1>1. IsFiniteSet(H) /\ n = Cardinality(H) /\ n \in Nat /\ n <= limit
  BY FS_Subset, FS_CardinalityType DEF HoldersOf, Sound
<1>2. /\ to \in [C -> ClientStates] /\ WaitersOf(C, to) = WaitersOf(C, st)
      /\ HoldersOf(C, to) = H \ {c} /\ c \in H
  BY DEF MovedTo, Sound, ClientStates, WaitersOf, HoldersOf
<1> HIDE DEF to, H
<1>3. Cardinality(HoldersOf(C, to)) = n - 1 /\ n - 1 <= limit
  <2>1. Cardinality(H \ {c}) = n - 1
    BY <1>1, <1>2, FS_RemoveElement
  <2> QED BY <1>1, <1>2, <2>1
<1> QED BY <1>2, <1>3 DEF Sound, to

HandedOver(st, c, first) == [st EXCEPT ![c] = "resting", ![first] = "started"]

LEMMA HandOverSound ==
    ASSUME NEW C, IsFiniteSet(C), NEW limit \in Nat, NEW n, NEW q, NEW st,
           Sound(C, limit, n, q, st), q # <<>>, NEW c \in C, st[c] = "running"
    PROVE  /\ Sound(C, limit, n, Tail(q), HandedOver(st, c, Head(q)))
           /\ Head(q) \in C /\ st[Head(q)] = "waiting"
<1>1. PICK first : first = Head(q)
  OBVIOUS
<1> DEFINE to == HandedOver(st, c, first)
           H == HoldersOf(C, st)
           rest == Tail(q)
<1>2. /\ q \in Seq(C) /\ Len(q) \in Nat /\ Len(q) > 0 /\ DOMAIN q = 1..Len(q)
      /\ \A i, j \in 1..Len(q) : q[i] = q[j] => i = j
  BY DEF Sound
<1>3. first = q[1] /\ first \in Members(q)
  BY <1>1, <1>2 DEF Members
<1>4. first \in C /\ st[first] = "waiting" /\ first # c
  BY <1>3 DEF Sound, WaitersOf
<1>5. rest \in Seq(C) /\ Len(rest) = Len(q) - 1 /\ DOMAIN rest = 1..Len(rest)
  BY <1>2
<1>6. \A i \in 1..Len(rest) : rest[i] = q[i + 1]
  BY <1>2
<1> HIDE DEF rest
<1>7. \A i \in 1..Len(rest) : i + 1 \in 1..Len(q) /\ i + 1 # 1
  BY <1>2, <1>5
<1>8. Members(rest) = Members(q) \ {first}
  <2>1. ASSUME NEW i \in 1..Len(rest) PROVE rest[i] \in Members(q) \ {first}
    <3>1. 1 \in 1..Len(q)
      BY <1>2
    <3> QED BY <1>2, <1>3, <1>6, <1>7, <3>1 DEF Members
  <2>2. ASSUME NEW i \in 1..Len(q), q[i] # first PROVE q[i] \in Members(rest)
    <3>1. i # 1 /\ i - 1 \in 1..Len(rest) /\ (i - 1) + 1 = i
      BY <1>2, <1>3, <1>5, <2>2
    <3>2. rest[i - 1] = q[i]
      BY <1>6, <3>1
    <3> QED BY <1>5, <3>1, <3>2 DEF Members
  <2> QED BY <1>2, <1>5, <2>1, <2>2 DEF Members
<1>9. \A i, j \in 1..Len(rest) : rest[i] = rest[j] => i = j
  <2> TAKE i, j \in 1..Len(rest)
  <2> HAVE rest[i] = rest[j]
  <2>1. q[i + 1] = q[j + 1] /\ i + 1 \in 1..Len(q) /\ j + 1 \in 1..Len(q)
    BY <1>6, <1>7
  <2>2. i + 1 = j + 1
    BY <1>2, <2>1
  <2> QED BY <2>2
<1>10. /\ to \in [C -> ClientStates] /\ WaitersOf(C, to) = WaitersOf(C, st) \ {first}
       /\ HoldersOf(C, to) = (H \ {c}) \cup {first} /\ c \in H /\ first \notin H
  BY <1>4 DEF HandedOver, Sound, ClientStates, WaitersOf, HoldersOf
<1>11. IsFiniteSet(H) /\ n = Cardinality(H) /\ n \in Nat
  BY FS_Subset, FS_CardinalityType DEF HoldersOf, Sound
<1> HIDE DEF to, H
<1>12. Cardinality(HoldersOf(C, to)) = n
  <2>1. IsFiniteSet(H \ {c}) /\ Cardinality(H \ {c}) = n - 1
    BY <1>10, <1>11, FS_RemoveElement
  <2>2. first \notin H \ {c}
    BY <1>10
  <2>3. Cardinality((H \ {c}) \cup {first}) = (n - 1) + 1
    BY <2>1, <2>2, FS_AddElement
  <2> QED BY <1>10, <1>11, <2>3
<1>13. n <= limit /\ n = limit /\ Members(q) = WaitersOf(C, st)
  BY DEF Sound
<1>14. Members(rest) = WaitersOf(C, to)
  BY <1>8, <1>10, <1>13
<1>15. Sound(C, limit, n, rest, to)
  BY <1>5, <1>9, <1>10, <1>12, <1>13, <1>14 DEF Sound
<1> QED BY <1>1, <1>4, <1>15 DEF to, rest

Sent(C, st) == [c \in C |-> IF st[c] = "waiting" THEN "resting" ELSE st[c]]

LEMMA AbortSound ==
    ASSUME NEW C, NEW limit \in Nat, NEW n, NEW q, NEW st, Sound(C, limit, n, q, st)
    PROVE  Sound(C, limit, n, <<>>, Sent(C, st))
<1> DEFINE to == Sent(C, st)
<1>1. /\ to \in [C -> ClientStates] /\ WaitersOf(C, to) = {}
      /\ HoldersOf(C, to) = HoldersOf(C, st)
  BY DEF Sent, Sound, ClientStates, WaitersOf, HoldersOf
<1>2. Members(<<>>) = {} /\ <<>> \in Seq(C) /\ 1..Len(<<>>) = {}
  BY DEF Members
<1> HIDE DEF to
<1> QED BY <1>1, <1>2 DEF Sound, to

-----------------------------------------------------------------------------
(* The scans: what a scan holds at each of its stages, and what its        *)
(* readers have in hand.                                                   *)
ScansType ==
    /\ scan \in [Vaults -> {"none", "reading", "whole", "failed"}]
    /\ cursor \in [Vaults -> Nat] /\ failed \in [Vaults -> BOOLEAN]
    /\ results \in [Vaults -> SUBSET Nat]
    /\ row \in [Readers -> Nat]

TurnsSound == Sound(Vaults, JobLimit, active, queue, turn)
ReadsSound == Sound(Readers, ReadLimit, slots, pending, read)

(* A reader between two rows wants no slot; the others are at rows of      *)
(* their own, none of which is among the results.                          *)
ReadersApart(v) ==
    \A r \in ReadersOf(v) :
        /\ row[r] = 0 => read[r] = "resting"
        /\ r \in settled => row[r] = 0
        /\ row[r] \notin results[v]
        /\ \A q \in ReadersOf(v) : row[r] # 0 /\ row[q] = row[r] => q = r

(* Until a read fails, the rows behind the cursor are read or in hand, and *)
(* a reader leaves at the last one only.                                   *)
NoRowIsLost(v) ==
    /\ cursor[v] <= Rows[v]
    /\ results[v] \subseteq 1..cursor[v] /\ \A r \in ReadersOf(v) : row[r] <= cursor[v]
    /\ \A k \in 1..cursor[v] :
        failed[v] \/ k \in results[v] \/ \E r \in ReadersOf(v) : row[r] = k
    /\ \A r \in ReadersOf(v) : r \in settled => failed[v] \/ cursor[v] = Rows[v]

(* Between two scans no reader is at work, and nothing is left of one that *)
(* failed.                                                                 *)
AtRest(v) ==
    /\ \A r \in ReadersOf(v) : row[r] = 0 /\ r \notin settled
    /\ cursor[v] = 0 /\ ~failed[v]
    /\ results[v] = IF scan[v] = "whole" THEN 1..Rows[v] ELSE {}

(* A vault that waits for its turn has planned, and holds what it planned  *)
(* on.                                                                     *)
VaultInv(v) ==
    /\ turn[v] \in {"waiting", "started"} => scan[v] = "whole"
    /\ ReadersApart(v)
    /\ IF scan[v] = "reading" THEN NoRowIsLost(v) ELSE AtRest(v)

ScansIInv ==
    /\ ScansType /\ TurnsSound /\ ReadsSound
    /\ \A v \in Vaults : VaultInv(v)

LEMMA ScanNumbers ==
    /\ \A v \in Vaults : Rows[v] \in Nat
    /\ Concurrency \in Nat /\ Concurrency >= 1 /\ JobLimit \in Nat /\ ReadLimit \in Nat
  BY ScanAssumption

LEMMA ReadersFinite == IsFiniteSet(Readers)
<1>1. IsFiniteSet(Vaults) /\ IsFiniteSet(1..Concurrency)
  BY ScanAssumption, ScanNumbers, FS_Interval
<1>2. IsFiniteSet(Vaults \X (1..Concurrency))
  BY <1>1, FS_Product
<1>3. Readers \subseteq Vaults \X (1..Concurrency)
  BY DEF Readers, ReadersOf
<1> QED BY <1>2, <1>3, FS_Subset

LEMMA ReaderOf ==
    /\ \A r \in Readers : r[1] \in Vaults /\ r \in ReadersOf(r[1])
    /\ \A v \in Vaults : \A r \in ReadersOf(v) : r \in Readers /\ r[1] = v
  BY DEF Readers, ReadersOf

LEMMA SameCardinality ==
    /\ \A S : Turns!Cardinality(S) = Cardinality(S)
    /\ \A S : Reads!Cardinality(S) = Cardinality(S)
  BY DEF Turns!Cardinality, Reads!Cardinality, Cardinality

LEMMA SameMembers ==
    \A q : Turns!ToSet(q) = Members(q) /\ Reads!ToSet(q) = Members(q)
  BY DEF Turns!ToSet, Reads!ToSet, Members

LEMMA SlotsExact ==
    /\ Turns!SlotsAreExact <=> Exact(Vaults, JobLimit, active, queue, turn)
    /\ Reads!SlotsAreExact <=> Exact(Readers, ReadLimit, slots, pending, read)
<1>1. Turns!SlotsAreExact <=> Exact(Vaults, JobLimit, active, queue, turn)
  BY SameCardinality, SameMembers DEF Turns!SlotsAreExact, Turns!Holders, Exact, HoldersOf, WaitersOf
<1>2. Reads!SlotsAreExact <=> Exact(Readers, ReadLimit, slots, pending, read)
  BY SameCardinality, SameMembers DEF Reads!SlotsAreExact, Reads!Holders, Exact, HoldersOf, WaitersOf
<1> QED BY <1>1, <1>2

(* The scans keep both invariants of the runs.                             *)
LEMMA IInvHolds == ScansIInv => LimitsHold /\ ScanIsWhole
<1> SUFFICES ASSUME ScansIInv PROVE LimitsHold /\ ScanIsWhole
  OBVIOUS
<1>1. LimitsHold
  BY SoundIsExact, SlotsExact DEF ScansIInv, TurnsSound, ReadsSound, LimitsHold
<1>2. ASSUME NEW v \in Vaults
      PROVE  /\ scan[v] = "whole" => results[v] = 1..Rows[v]
             /\ \A r \in ReadersOf(v) :
                 /\ scan[v] # "reading" => row[r] = 0 /\ read[r] = "resting"
                 /\ row[r] \notin results[v]
                 /\ \A q \in ReadersOf(v) : row[r] # 0 /\ row[q] = row[r] => q = r
  <2>1. VaultInv(v)
    BY DEF ScansIInv
  <2>2. ReadersApart(v) /\ (scan[v] # "reading" => AtRest(v))
    BY <2>1 DEF VaultInv
  <2> QED BY <2>2 DEF ReadersApart, AtRest
<1> QED BY <1>1, <1>2 DEF ScanIsWhole

LEMMA ScansInit_IInv == ScansInit => ScansIInv
<1> SUFFICES ASSUME ScansInit PROVE ScansIInv
  OBVIOUS
<1>1. ScansType
  BY DEF ScansInit, ScansType
<1>2. TurnsSound
  <2>1. active = 0 /\ queue = <<>> /\ turn = [v \in Vaults |-> "resting"]
    BY DEF ScansInit, Turns!LimiterInit
  <2> QED BY <2>1, ScanNumbers, SoundAtFirst DEF TurnsSound
<1>3. ReadsSound
  <2>1. slots = 0 /\ pending = <<>> /\ read = [r \in Readers |-> "resting"]
    BY DEF ScansInit, Reads!LimiterInit
  <2> QED BY <2>1, ScanNumbers, SoundAtFirst DEF ReadsSound
<1>4. ASSUME NEW v \in Vaults PROVE VaultInv(v)
  <2>1. \A r \in ReadersOf(v) : row[r] = 0 /\ read[r] = "resting" /\ r \notin settled
    BY ReaderOf DEF ScansInit, Reads!LimiterInit
  <2>2. turn[v] = "resting" /\ scan[v] = "none" /\ cursor[v] = 0 /\ ~failed[v] /\ results[v] = {}
    BY DEF ScansInit, Turns!LimiterInit
  <2> QED BY <2>1, <2>2 DEF VaultInv, ReadersApart, AtRest
<1> QED BY <1>1, <1>2, <1>3, <1>4 DEF ScansIInv

-----------------------------------------------------------------------------
(* What a step of a limiter does to its client, and to the others.         *)
LEMMA ReadAcquired ==
    ASSUME ReadsSound, NEW r \in Readers, AcquireRead(r)
    PROVE  /\ ReadsSound' /\ read[r] = "resting"
           /\ \A q \in Readers \ {r} : read'[q] = read[q]
<1>1. CASE Reads!Take(r)
  <2>1. /\ slots < ReadLimit /\ read[r] = "resting" /\ slots' = slots + 1 /\ pending' = pending
        /\ read' = MovedTo(read, r, "started")
    BY <1>1 DEF Reads!Take, Reads!Become, MovedTo
  <2>2. Sound(Readers, ReadLimit, slots + 1, pending, MovedTo(read, r, "started"))
    BY <2>1, TakeSound, ReadersFinite, ScanNumbers DEF ReadsSound
  <2>3. \A q \in Readers \ {r} : read'[q] = read[q]
    BY <2>1 DEF MovedTo, ReadsSound, Sound
  <2> QED BY <2>1, <2>2, <2>3 DEF ReadsSound
<1>2. CASE Reads!Wait(r)
  <2>1. /\ slots >= ReadLimit /\ read[r] = "resting" /\ slots' = slots /\ pending' = Append(pending, r)
        /\ read' = MovedTo(read, r, "waiting")
    BY <1>2 DEF Reads!Wait, Reads!Become, MovedTo
  <2>2. Sound(Readers, ReadLimit, slots, Append(pending, r), MovedTo(read, r, "waiting"))
    BY <2>1, WaitSound, ReadersFinite, ScanNumbers DEF ReadsSound
  <2>3. \A q \in Readers \ {r} : read'[q] = read[q]
    BY <2>1 DEF MovedTo, ReadsSound, Sound
  <2> QED BY <2>1, <2>2, <2>3 DEF ReadsSound
<1> QED BY <1>1, <1>2 DEF AcquireRead

LEMMA ReadGoes ==
    ASSUME ReadsSound, NEW r \in Readers, Reads!Go(r)
    PROVE  /\ ReadsSound' /\ read[r] = "started"
           /\ \A q \in Readers \ {r} : read'[q] = read[q]
<1>1. /\ read[r] = "started" /\ slots' = slots /\ pending' = pending
      /\ read' = MovedTo(read, r, "running")
  BY DEF Reads!Go, Reads!Become, MovedTo
<1>2. Sound(Readers, ReadLimit, slots, pending, MovedTo(read, r, "running"))
  BY <1>1, GoSound, ScanNumbers DEF ReadsSound
<1>3. \A q \in Readers \ {r} : read'[q] = read[q]
  BY <1>1 DEF MovedTo, ReadsSound, Sound
<1> QED BY <1>1, <1>2, <1>3 DEF ReadsSound

LEMMA ReadReleased ==
    ASSUME ReadsSound, NEW r \in Readers, ReleaseRead(r)
    PROVE  /\ ReadsSound' /\ read[r] = "running" /\ read'[r] = "resting"
           /\ OthersServed(Readers, read, read', r)
<1>1. read[r] = "running" /\ read \in [Readers -> ClientStates]
  BY DEF ReleaseRead, Reads!Finish, ReadsSound, Sound
<1>2. CASE pending = <<>>
  <2>1. slots' = slots - 1 /\ pending' = <<>> /\ read' = MovedTo(read, r, "resting")
    BY <1>2 DEF ReleaseRead, Reads!Finish, MovedTo
  <2>2. Sound(Readers, ReadLimit, slots - 1, <<>>, MovedTo(read, r, "resting"))
    BY <1>1, <1>2, FreeSound, ReadersFinite, ScanNumbers DEF ReadsSound
  <2>3. read'[r] = "resting" /\ OthersServed(Readers, read, read', r)
    BY <1>1, <2>1 DEF MovedTo, OthersServed
  <2> QED BY <1>1, <2>1, <2>2, <2>3 DEF ReadsSound
<1>3. CASE pending # <<>>
  <2>1. slots' = slots /\ pending' = Tail(pending) /\ read' = HandedOver(read, r, Head(pending))
    BY <1>3 DEF ReleaseRead, Reads!Finish, HandedOver
  <2>2. /\ Sound(Readers, ReadLimit, slots, Tail(pending), HandedOver(read, r, Head(pending)))
        /\ Head(pending) \in Readers /\ read[Head(pending)] = "waiting"
    BY <1>1, <1>3, HandOverSound, ReadersFinite, ScanNumbers DEF ReadsSound
  <2>3. read'[r] = "resting" /\ OthersServed(Readers, read, read', r)
    BY <1>1, <2>1, <2>2 DEF HandedOver, OthersServed
  <2> QED BY <1>1, <2>1, <2>2, <2>3 DEF ReadsSound
<1> QED BY <1>2, <1>3

LEMMA TurnSought ==
    ASSUME TurnsSound, NEW v \in Vaults, Turns!Take(v) \/ Turns!Wait(v)
    PROVE  TurnsSound' /\ \A w \in Vaults \ {v} : turn'[w] = turn[w]
<1>1. CASE Turns!Take(v)
  <2>1. /\ active < JobLimit /\ turn[v] = "resting" /\ active' = active + 1 /\ queue' = queue
        /\ turn' = MovedTo(turn, v, "started")
    BY <1>1 DEF Turns!Take, Turns!Become, MovedTo
  <2>2. Sound(Vaults, JobLimit, active + 1, queue, MovedTo(turn, v, "started"))
    BY <2>1, TakeSound, ScanAssumption, ScanNumbers DEF TurnsSound
  <2>3. \A w \in Vaults \ {v} : turn'[w] = turn[w]
    BY <2>1 DEF MovedTo, TurnsSound, Sound
  <2> QED BY <2>1, <2>2, <2>3 DEF TurnsSound
<1>2. CASE Turns!Wait(v)
  <2>1. /\ active >= JobLimit /\ turn[v] = "resting" /\ active' = active /\ queue' = Append(queue, v)
        /\ turn' = MovedTo(turn, v, "waiting")
    BY <1>2 DEF Turns!Wait, Turns!Become, MovedTo
  <2>2. Sound(Vaults, JobLimit, active, Append(queue, v), MovedTo(turn, v, "waiting"))
    BY <2>1, WaitSound, ScanAssumption, ScanNumbers DEF TurnsSound
  <2>3. \A w \in Vaults \ {v} : turn'[w] = turn[w]
    BY <2>1 DEF MovedTo, TurnsSound, Sound
  <2> QED BY <2>1, <2>2, <2>3 DEF TurnsSound
<1> QED BY <1>1, <1>2

LEMMA TurnComes ==
    ASSUME TurnsSound, NEW v \in Vaults, Turns!Go(v)
    PROVE  /\ TurnsSound' /\ turn[v] = "started" /\ turn'[v] = "running"
           /\ \A w \in Vaults \ {v} : turn'[w] = turn[w]
<1>1. /\ turn[v] = "started" /\ active' = active /\ queue' = queue
      /\ turn' = MovedTo(turn, v, "running")
  BY DEF Turns!Go, Turns!Become, MovedTo
<1>2. Sound(Vaults, JobLimit, active, queue, MovedTo(turn, v, "running"))
  BY <1>1, GoSound, ScanNumbers DEF TurnsSound
<1>3. turn'[v] = "running" /\ \A w \in Vaults \ {v} : turn'[w] = turn[w]
  BY <1>1 DEF MovedTo, TurnsSound, Sound
<1> QED BY <1>1, <1>2, <1>3 DEF TurnsSound

LEMMA TurnEnds ==
    ASSUME TurnsSound, NEW v \in Vaults, Turns!Finish(v)
    PROVE  /\ TurnsSound' /\ turn[v] = "running" /\ turn'[v] = "resting"
           /\ OthersServed(Vaults, turn, turn', v)
<1>1. turn[v] = "running" /\ turn \in [Vaults -> ClientStates]
  BY DEF Turns!Finish, TurnsSound, Sound
<1>2. CASE queue = <<>>
  <2>1. active' = active - 1 /\ queue' = <<>> /\ turn' = MovedTo(turn, v, "resting")
    BY <1>2 DEF Turns!Finish, MovedTo
  <2>2. Sound(Vaults, JobLimit, active - 1, <<>>, MovedTo(turn, v, "resting"))
    BY <1>1, <1>2, FreeSound, ScanAssumption, ScanNumbers DEF TurnsSound
  <2>3. turn'[v] = "resting" /\ OthersServed(Vaults, turn, turn', v)
    BY <1>1, <2>1 DEF MovedTo, OthersServed
  <2> QED BY <1>1, <2>1, <2>2, <2>3 DEF TurnsSound
<1>3. CASE queue # <<>>
  <2>1. active' = active /\ queue' = Tail(queue) /\ turn' = HandedOver(turn, v, Head(queue))
    BY <1>3 DEF Turns!Finish, HandedOver
  <2>2. /\ Sound(Vaults, JobLimit, active, Tail(queue), HandedOver(turn, v, Head(queue)))
        /\ Head(queue) \in Vaults /\ turn[Head(queue)] = "waiting"
    BY <1>1, <1>3, HandOverSound, ScanAssumption, ScanNumbers DEF TurnsSound
  <2>3. turn'[v] = "resting" /\ OthersServed(Vaults, turn, turn', v)
    BY <1>1, <2>1, <2>2 DEF HandedOver, OthersServed
  <2> QED BY <1>1, <2>1, <2>2, <2>3 DEF TurnsSound
<1> QED BY <1>2, <1>3

LEMMA TurnsCalledOff ==
    ASSUME TurnsSound, Turns!Abort
    PROVE  /\ TurnsSound'
           /\ \A v \in Vaults : turn'[v] \in {"waiting", "started"} => turn[v] = "started"
<1>1. active' = active /\ queue' = <<>> /\ turn' = Sent(Vaults, turn)
  BY DEF Turns!Abort, Sent
<1>2. Sound(Vaults, JobLimit, active, <<>>, Sent(Vaults, turn))
  BY AbortSound, ScanNumbers DEF TurnsSound
<1>3. \A v \in Vaults : turn'[v] \in {"waiting", "started"} => turn[v] = "started"
  BY <1>1 DEF Sent
<1> QED BY <1>1, <1>2, <1>3 DEF TurnsSound

LEMMA SoundStays ==
    /\ TurnsSound /\ UNCHANGED <<active, queue, turn>> => TurnsSound'
    /\ ReadsSound /\ UNCHANGED <<slots, pending, read>> => ReadsSound'
  BY DEF TurnsSound, ReadsSound

-----------------------------------------------------------------------------
(* One vault's part of the invariant depends on its own scan and readers.  *)
ReaderStays(r) ==
    /\ row'[r] = row[r] /\ (r \in settled' <=> r \in settled)
    /\ read'[r] = read[r] \/ (read[r] = "waiting" /\ read'[r] = "started")

ScanStays(v) ==
    /\ scan'[v] = scan[v] /\ cursor'[v] = cursor[v]
    /\ failed'[v] = failed[v] /\ results'[v] = results[v]

TurnStays(v) ==
    turn'[v] \in {"waiting", "started"} => turn[v] \in {"waiting", "started"}

LEMMA ReadersStayApart ==
    ASSUME NEW v \in Vaults, ReadersApart(v), results'[v] = results[v],
           \A r \in ReadersOf(v) : ReaderStays(r)
    PROVE  ReadersApart(v)'
<1>1. ASSUME NEW r \in ReadersOf(v)
      PROVE  /\ row'[r] = 0 => read'[r] = "resting"
             /\ r \in settled' => row'[r] = 0
             /\ row'[r] \notin results'[v]
             /\ \A q \in ReadersOf(v) : row'[r] # 0 /\ row'[q] = row'[r] => q = r
  <2>1. ReaderStays(r) /\ \A q \in ReadersOf(v) : row'[q] = row[q]
    BY DEF ReaderStays
  <2> QED BY <2>1 DEF ReadersApart, ReaderStays
<1> QED BY <1>1 DEF ReadersApart, ReadersOf

LEMMA VaultStays ==
    ASSUME NEW v \in Vaults, VaultInv(v), ScanStays(v), TurnStays(v),
           \A r \in ReadersOf(v) : ReaderStays(r)
    PROVE  VaultInv(v)'
<1>1. ReadersApart(v)'
  BY ReadersStayApart DEF VaultInv, ScanStays
<1>2. \A r \in ReadersOf(v) : row'[r] = row[r] /\ (r \in settled' <=> r \in settled)
  BY DEF ReaderStays
<1>3. CASE scan[v] = "reading"
  <2>1. NoRowIsLost(v)
    BY <1>3 DEF VaultInv
  <2>2. NoRowIsLost(v)'
    BY <1>2, <2>1 DEF NoRowIsLost, ScanStays, ReadersOf
  <2> QED BY <1>1, <1>3, <2>2 DEF VaultInv, ScanStays, TurnStays
<1>4. CASE scan[v] # "reading"
  <2>1. AtRest(v)
    BY <1>4 DEF VaultInv
  <2>2. AtRest(v)'
    BY <1>2, <2>1 DEF AtRest, ScanStays, ReadersOf
  <2> QED BY <1>1, <1>4, <2>2 DEF VaultInv, ScanStays, TurnStays
<1> QED BY <1>3, <1>4

(* A step of the reader r: other vaults' readers stay, and so do the       *)
(* scans of other vaults.                                                  *)
LEMMA OtherVaults ==
    ASSUME ScansIInv, NEW r \in Readers, \A q \in Readers \ {r} : ReaderStays(q),
           \A w \in Vaults \ {r[1]} : ScanStays(w), UNCHANGED turn,
           NEW w \in Vaults, w # r[1]
    PROVE  VaultInv(w)'
<1>1. \A q \in ReadersOf(w) : ReaderStays(q)
  BY ReaderOf
<1>2. VaultInv(w) /\ ScanStays(w) /\ TurnStays(w)
  BY DEF ScansIInv, TurnStays
<1> QED BY <1>1, <1>2, VaultStays

(* A reader at a row is a reader of a scan.                                *)
LEMMA AtARow ==
    ASSUME ScansIInv, NEW r \in Readers, row[r] # 0 \/ read[r] # "resting"
    PROVE  /\ r[1] \in Vaults /\ r \in ReadersOf(r[1])
           /\ row[r] # 0 /\ row[r] \in Nat /\ r \notin settled /\ row[r] \notin results[r[1]]
           /\ scan[r[1]] = "reading" /\ NoRowIsLost(r[1]) /\ ReadersApart(r[1])
           /\ turn[r[1]] \notin {"waiting", "started"}
<1>1. r[1] \in Vaults /\ r \in ReadersOf(r[1])
  BY ReaderOf
<1>2. VaultInv(r[1]) /\ row[r] \in Nat
  BY <1>1 DEF ScansIInv, ScansType
<1>3. ReadersApart(r[1])
  BY <1>2 DEF VaultInv
<1>4. row[r] # 0 /\ r \notin settled /\ row[r] \notin results[r[1]]
  BY <1>1, <1>3 DEF ReadersApart
<1>5. scan[r[1]] = "reading"
  BY <1>1, <1>2, <1>4 DEF VaultInv, AtRest
<1> QED BY <1>1, <1>2, <1>3, <1>4, <1>5 DEF VaultInv

(* The type of the scans, by parts.                                        *)
LEMMA TypeNext ==
    ASSUME ScansType, NEW w \in Vaults,
           \/ UNCHANGED scan
           \/ \E x \in {"none", "reading", "whole", "failed"} : scan' = [scan EXCEPT ![w] = x],
           UNCHANGED cursor \/ \E n \in Nat : cursor' = [cursor EXCEPT ![w] = n],
           UNCHANGED failed \/ \E b \in BOOLEAN : failed' = [failed EXCEPT ![w] = b],
           UNCHANGED results \/ \E s \in SUBSET Nat : results' = [results EXCEPT ![w] = s],
           UNCHANGED row \/ \E r \in Readers, n \in Nat : row' = [row EXCEPT ![r] = n]
    PROVE  ScansType'
<1>1. scan' \in [Vaults -> {"none", "reading", "whole", "failed"}]
  BY DEF ScansType
<1>2. cursor' \in [Vaults -> Nat] /\ failed' \in [Vaults -> BOOLEAN]
  BY DEF ScansType
<1>3. results' \in [Vaults -> SUBSET Nat]
  BY DEF ScansType
<1>4. row' \in [Readers -> Nat]
  BY DEF ScansType
<1> QED BY <1>1, <1>2, <1>3, <1>4 DEF ScansType

LEMMA TakeRowKeeps ==
    ASSUME ScansIInv, NEW r \in Readers, TakeRow(r)
    PROVE  ScansIInv'
<1> DEFINE v == r[1]
<1>1. v \in Vaults /\ r \in ReadersOf(v) /\ cursor[v] \in Nat
  BY ReaderOf DEF ScansIInv, ScansType
<1>2. /\ scan[v] = "reading" /\ r \notin settled /\ row[r] = 0 /\ ~failed[v] /\ cursor[v] < Rows[v]
      /\ cursor' = [cursor EXCEPT ![v] = cursor[v] + 1]
      /\ row' = [row EXCEPT ![r] = cursor[v] + 1]
      /\ UNCHANGED <<turnVars, scan, failed, results, settled>>
  BY DEF TakeRow
<1>3. /\ ReadsSound' /\ read[r] = "resting"
      /\ \A q \in Readers \ {r} : read'[q] = read[q]
  BY ReadAcquired DEF TakeRow, ScansIInv
<1> HIDE DEF v
<1>4. PICK n \in Nat : n = cursor[v] + 1
  BY <1>1
<1>5. /\ cursor'[v] = n /\ row'[r] = n /\ n \in 1..n /\ n # 0
      /\ \A q \in Readers \ {r} : row'[q] = row[q]
      /\ \A w \in Vaults \ {v} : cursor'[w] = cursor[w]
  BY <1>1, <1>2, <1>4 DEF ScansIInv, ScansType
<1>6. ScansType'
  BY <1>1, <1>2, <1>4, TypeNext DEF ScansIInv
<1>7. TurnsSound'
  BY <1>2, SoundStays DEF ScansIInv, turnVars
<1>8. \A q \in Readers \ {r} : ReaderStays(q)
  BY <1>2, <1>3, <1>5 DEF ReaderStays
<1>9. ASSUME NEW w \in Vaults, w # v PROVE VaultInv(w)'
  <2>1. \A x \in Vaults \ {v} : ScanStays(x)
    BY <1>2, <1>5 DEF ScanStays
  <2>2. UNCHANGED turn
    BY <1>2 DEF turnVars
  <2> QED BY <1>8, <1>9, <2>1, <2>2, OtherVaults DEF v
<1>10. NoRowIsLost(v) /\ ReadersApart(v) /\ turn[v] \notin {"waiting", "started"}
  BY <1>1, <1>2 DEF ScansIInv, VaultInv
<1>11. \A q \in ReadersOf(v) : row[q] < n /\ row[q] \in Nat /\ q \in Readers
  BY <1>1, <1>4, <1>10, ReaderOf DEF NoRowIsLost, ScansIInv, ScansType
<1>12. n \notin results[v]
  BY <1>1, <1>4, <1>10 DEF NoRowIsLost
<1>13. ReadersApart(v)'
  <2>1. ASSUME NEW q \in ReadersOf(v)
        PROVE  /\ row'[q] = 0 => read'[q] = "resting"
               /\ q \in settled' => row'[q] = 0
               /\ row'[q] \notin results'[v]
               /\ \A p \in ReadersOf(v) : row'[q] # 0 /\ row'[p] = row'[q] => p = q
    <3>1. \A p \in ReadersOf(v) : row'[p] = IF p = r THEN n ELSE row[p]
      BY <1>5, <1>11
    <3>2. q # r => read'[q] = read[q]
      BY <1>3, <1>11
    <3> QED BY <1>2, <1>5, <1>10, <1>11, <1>12, <3>1, <3>2 DEF ReadersApart
  <2> QED BY <2>1 DEF ReadersApart, ReadersOf
<1>14. NoRowIsLost(v)'
  <2>1. \A p \in ReadersOf(v) : row'[p] = IF p = r THEN n ELSE row[p]
    BY <1>5, <1>11
  <2>2. /\ cursor'[v] <= Rows[v] /\ results'[v] \subseteq 1..cursor'[v]
        /\ \A p \in ReadersOf(v) : row'[p] <= cursor'[v]
    <3>1. n <= Rows[v] /\ Rows[v] \in Nat
      BY <1>1, <1>2, <1>4, ScanNumbers
    <3>2. results[v] \subseteq 1..n
      BY <1>1, <1>4, <1>10 DEF NoRowIsLost
    <3> QED BY <1>2, <1>5, <1>11, <2>1, <3>1, <3>2
  <2>3. ASSUME NEW k \in 1..n
        PROVE  k \in results[v] \/ \E q \in ReadersOf(v) : row'[q] = k
    <3>1. CASE k = n
      BY <1>1, <1>5, <3>1
    <3>2. CASE k # n
      <4>1. k \in 1..cursor[v] /\ k # 0
        BY <1>1, <1>4, <3>2
      <4>2. k \in results[v] \/ \E q \in ReadersOf(v) : row[q] = k
        BY <1>2, <1>10, <4>1 DEF NoRowIsLost
      <4>3. \A q \in ReadersOf(v) : row[q] = k => q # r
        BY <1>2, <4>1
      <4> QED BY <2>1, <4>2, <4>3
    <3> QED BY <3>1, <3>2
  <2>4. \A q \in ReadersOf(v) : q \notin settled
    BY <1>1, <1>2, <1>10, ScanNumbers DEF NoRowIsLost
  <2> QED BY <1>2, <1>5, <2>2, <2>3, <2>4 DEF NoRowIsLost, ReadersOf
<1>15. VaultInv(v)'
  BY <1>2, <1>10, <1>13, <1>14 DEF VaultInv, turnVars
<1> QED BY <1>3, <1>6, <1>7, <1>9, <1>15 DEF ScansIInv


(* The reader's limiter moves, and what it reads stays.                    *)
LEMMA SlotMoves ==
    ASSUME ScansIInv, NEW r \in Readers, row[r] # 0 \/ read[r] # "resting",
           UNCHANGED <<turnVars, scanVars, row, settled>>,
           ReadsSound', OthersServed(Readers, read, read', r)
    PROVE  ScansIInv'
<1>1. /\ r[1] \in Vaults /\ row[r] # 0 /\ scan[r[1]] = "reading"
      /\ NoRowIsLost(r[1]) /\ ReadersApart(r[1]) /\ turn[r[1]] \notin {"waiting", "started"}
  BY AtARow
<1>2. \A q \in Readers \ {r} : ReaderStays(q)
  BY DEF ReaderStays, OthersServed
<1>3. \A w \in Vaults : ScanStays(w)
  BY DEF ScanStays, scanVars
<1>4. ScansType' /\ TurnsSound'
  BY SoundStays DEF ScansIInv, ScansType, scanVars, turnVars
<1>5. ASSUME NEW w \in Vaults, w # r[1] PROVE VaultInv(w)'
  BY <1>2, <1>3, <1>5, OtherVaults DEF turnVars
<1>6. ReadersApart(r[1])'
  <2>1. ASSUME NEW q \in ReadersOf(r[1]) PROVE row[q] = 0 => read'[q] = "resting"
    BY <1>1, <1>2, ReaderOf DEF ReadersApart, ReaderStays
  <2> QED BY <1>1, <2>1 DEF ReadersApart, ReadersOf, scanVars
<1>7. NoRowIsLost(r[1])'
  BY <1>1 DEF NoRowIsLost, ReadersOf, scanVars
<1>8. VaultInv(r[1])'
  BY <1>1, <1>6, <1>7 DEF VaultInv, scanVars, turnVars
<1> QED BY <1>4, <1>5, <1>8 DEF ScansIInv

LEMMA RequestKeeps ==
    ASSUME ScansIInv, NEW r \in Readers, Request(r)
    PROVE  ScansIInv'
<1>1. /\ ReadsSound' /\ read[r] = "started"
      /\ \A q \in Readers \ {r} : read'[q] = read[q]
  BY ReadGoes DEF Request, ScansIInv
<1>2. UNCHANGED <<turnVars, scanVars, row, settled>>
  BY DEF Request, rowVars
<1> QED BY <1>1, <1>2, SlotMoves DEF OthersServed

LEMMA RetryKeeps ==
    ASSUME ScansIInv, NEW r \in Readers, Retry(r)
    PROVE  ScansIInv'
<1>1. ReadsSound' /\ \A q \in Readers \ {r} : read'[q] = read[q]
  BY ReadAcquired DEF Retry, ScansIInv
<1>2. row[r] # 0 /\ UNCHANGED <<turnVars, scanVars, row, settled>>
  BY DEF Retry, rowVars
<1> QED BY <1>1, <1>2, SlotMoves DEF OthersServed

LEMMA InterruptKeeps ==
    ASSUME ScansIInv, NEW r \in Readers, Interrupt(r)
    PROVE  ScansIInv'
<1>1. ReadsSound' /\ read[r] = "running" /\ OthersServed(Readers, read, read', r)
  BY ReadReleased DEF Interrupt, ScansIInv
<1>2. UNCHANGED <<turnVars, scanVars, row, settled>>
  BY DEF Interrupt
<1> QED BY <1>1, <1>2, SlotMoves

LEMMA LeaveScanKeeps ==
    ASSUME ScansIInv, NEW r \in Readers, LeaveScan(r)
    PROVE  ScansIInv'
<1> DEFINE v == r[1]
<1>1. v \in Vaults /\ r \in ReadersOf(v)
  BY ReaderOf
<1>2. /\ scan[v] = "reading" /\ row[r] = 0 /\ (failed[v] \/ cursor[v] = Rows[v])
      /\ settled' = settled \cup {r}
      /\ UNCHANGED <<turnVars, scanVars, row, slotVars>>
  BY DEF LeaveScan
<1> HIDE DEF v
<1>3. ScansType' /\ TurnsSound' /\ ReadsSound'
  BY <1>2, SoundStays DEF ScansIInv, ScansType, scanVars, turnVars, slotVars
<1>4. ASSUME NEW w \in Vaults, w # v PROVE VaultInv(w)'
  <2>1. \A q \in Readers \ {r} : ReaderStays(q)
    BY <1>2 DEF ReaderStays, slotVars
  <2>2. \A x \in Vaults : ScanStays(x)
    BY <1>2 DEF ScanStays, scanVars
  <2>3. UNCHANGED turn
    BY <1>2 DEF turnVars
  <2> QED BY <1>4, <2>1, <2>2, <2>3, OtherVaults DEF v
<1>5. NoRowIsLost(v) /\ ReadersApart(v) /\ turn[v] \notin {"waiting", "started"}
  BY <1>1, <1>2 DEF ScansIInv, VaultInv
<1>6. ReadersApart(v)'
  BY <1>2, <1>5 DEF ReadersApart, ReadersOf, scanVars, slotVars
<1>7. NoRowIsLost(v)'
  BY <1>2, <1>5 DEF NoRowIsLost, ReadersOf, scanVars
<1>8. VaultInv(v)'
  BY <1>2, <1>5, <1>6, <1>7 DEF VaultInv, scanVars, turnVars
<1> QED BY <1>3, <1>4, <1>8 DEF ScansIInv

LEMMA ReadRowKeeps ==
    ASSUME ScansIInv, NEW r \in Readers, ReadRow(r)
    PROVE  ScansIInv'
<1> DEFINE v == r[1]
<1>1. ReadsSound' /\ read[r] = "running" /\ read'[r] = "resting" /\ OthersServed(Readers, read, read', r)
  BY ReadReleased DEF ReadRow, ScansIInv
<1>2. /\ v \in Vaults /\ r \in ReadersOf(v) /\ row[r] # 0 /\ row[r] \in Nat /\ r \notin settled
      /\ scan[v] = "reading" /\ NoRowIsLost(v) /\ ReadersApart(v)
      /\ turn[v] \notin {"waiting", "started"}
  BY <1>1, AtARow
<1>3. /\ results' = [results EXCEPT ![v] = results[v] \cup {row[r]}]
      /\ row' = [row EXCEPT ![r] = 0]
      /\ UNCHANGED <<turnVars, scan, cursor, failed, settled>>
  BY DEF ReadRow, LetGo
<1> HIDE DEF v
<1>4. PICK k \in Nat : k = row[r] /\ k # 0
  BY <1>2
<1>5. results[v] \in SUBSET Nat /\ results[v] \cup {k} \in SUBSET Nat /\ cursor[v] \in Nat
  BY <1>2 DEF ScansIInv, ScansType
<1>6. /\ results'[v] = results[v] \cup {k} /\ row'[r] = 0
      /\ \A q \in Readers \ {r} : row'[q] = row[q]
      /\ \A w \in Vaults \ {v} : results'[w] = results[w]
  BY <1>2, <1>3, <1>4 DEF ScansIInv, ScansType
<1>7. ScansType'
  BY <1>2, <1>3, <1>4, <1>5, TypeNext DEF ScansIInv
<1>8. TurnsSound'
  BY <1>3, SoundStays DEF ScansIInv, turnVars
<1>9. \A q \in Readers \ {r} : ReaderStays(q)
  BY <1>1, <1>3, <1>6 DEF ReaderStays, OthersServed
<1>10. ASSUME NEW w \in Vaults, w # v PROVE VaultInv(w)'
  <2>1. \A x \in Vaults \ {v} : ScanStays(x)
    BY <1>3, <1>6 DEF ScanStays
  <2>2. UNCHANGED turn
    BY <1>3 DEF turnVars
  <2> QED BY <1>9, <1>10, <2>1, <2>2, OtherVaults DEF v
<1>11. \A q \in ReadersOf(v) : q \in Readers /\ row'[q] = IF q = r THEN 0 ELSE row[q]
  BY <1>6, ReaderOf, <1>2
<1>12. 0 \notin results[v] /\ k \in 1..cursor[v]
  BY <1>2, <1>4, <1>5 DEF NoRowIsLost
<1>13. ReadersApart(v)'
  <2>1. ASSUME NEW q \in ReadersOf(v)
        PROVE  /\ row'[q] = 0 => read'[q] = "resting"
               /\ q \in settled' => row'[q] = 0
               /\ row'[q] \notin results'[v]
               /\ \A p \in ReadersOf(v) : row'[q] # 0 /\ row'[p] = row'[q] => p = q
    <3>1. q # r => ReaderStays(q)
      BY <1>9, <1>11
    <3>2. row'[q] = 0 => read'[q] = "resting"
      BY <1>1, <1>2, <1>11, <3>1 DEF ReaderStays, ReadersApart
    <3>3. row'[q] \notin results'[v]
      BY <1>2, <1>4, <1>6, <1>11, <1>12 DEF ReadersApart
    <3>4. \A p \in ReadersOf(v) : row'[q] # 0 /\ row'[p] = row'[q] => p = q
      BY <1>2, <1>11 DEF ReadersApart
    <3> QED BY <1>2, <1>3, <1>11, <3>2, <3>3, <3>4 DEF ReadersApart
  <2> QED BY <2>1 DEF ReadersApart, ReadersOf
<1>14. NoRowIsLost(v)'
  <2>1. /\ cursor[v] <= Rows[v] /\ results'[v] \subseteq 1..cursor[v]
        /\ \A p \in ReadersOf(v) : row'[p] <= cursor[v]
    BY <1>2, <1>5, <1>6, <1>11, <1>12 DEF NoRowIsLost
  <2>2. ASSUME NEW j \in 1..cursor[v]
        PROVE  failed[v] \/ j \in results'[v] \/ \E q \in ReadersOf(v) : row'[q] = j
    <3>1. failed[v] \/ j \in results[v] \/ \E q \in ReadersOf(v) : row[q] = j
      BY <1>2 DEF NoRowIsLost
    <3>2. ASSUME NEW q \in ReadersOf(v), row[q] = j PROVE j = k \/ row'[q] = j
      BY <1>4, <1>11, <3>2
    <3> QED BY <1>6, <3>1, <3>2
  <2>3. \A q \in ReadersOf(v) : q \in settled => failed[v] \/ cursor[v] = Rows[v]
    BY <1>2 DEF NoRowIsLost
  <2> QED BY <1>3, <2>1, <2>2, <2>3 DEF NoRowIsLost, ReadersOf
<1>15. VaultInv(v)'
  BY <1>2, <1>3, <1>13, <1>14 DEF VaultInv, turnVars
<1> QED BY <1>1, <1>7, <1>8, <1>10, <1>15 DEF ScansIInv

LEMMA GiveUpReadKeeps ==
    ASSUME ScansIInv, NEW r \in Readers, GiveUpRead(r)
    PROVE  ScansIInv'
<1> DEFINE v == r[1]
<1>1. ReadsSound' /\ read[r] = "running" /\ read'[r] = "resting" /\ OthersServed(Readers, read, read', r)
  BY ReadReleased DEF GiveUpRead, ScansIInv
<1>2. /\ v \in Vaults /\ r \in ReadersOf(v) /\ row[r] # 0
      /\ scan[v] = "reading" /\ NoRowIsLost(v) /\ ReadersApart(v)
      /\ turn[v] \notin {"waiting", "started"}
  BY <1>1, AtARow
<1>3. /\ failed' = [failed EXCEPT ![v] = TRUE] /\ settled' = settled \cup {r}
      /\ row' = [row EXCEPT ![r] = 0]
      /\ UNCHANGED <<turnVars, scan, cursor, results>>
  BY DEF GiveUpRead, LetGo
<1> HIDE DEF v
<1>4. /\ failed'[v] = TRUE /\ row'[r] = 0 /\ cursor[v] \in Nat
      /\ \A q \in Readers \ {r} : row'[q] = row[q]
      /\ \A w \in Vaults \ {v} : failed'[w] = failed[w]
  BY <1>2, <1>3 DEF ScansIInv, ScansType
<1>5. ScansType'
  BY <1>2, <1>3, TypeNext DEF ScansIInv
<1>6. TurnsSound'
  BY <1>3, SoundStays DEF ScansIInv, turnVars
<1>7. \A q \in Readers \ {r} : ReaderStays(q)
  BY <1>1, <1>3, <1>4 DEF ReaderStays, OthersServed
<1>8. ASSUME NEW w \in Vaults, w # v PROVE VaultInv(w)'
  <2>1. \A x \in Vaults \ {v} : ScanStays(x)
    BY <1>3, <1>4 DEF ScanStays
  <2>2. UNCHANGED turn
    BY <1>3 DEF turnVars
  <2> QED BY <1>7, <1>8, <2>1, <2>2, OtherVaults DEF v
<1>9. \A q \in ReadersOf(v) : q \in Readers /\ row'[q] = IF q = r THEN 0 ELSE row[q]
  BY <1>4, ReaderOf, <1>2
<1>10. 0 \notin results[v]
  BY <1>2, <1>4 DEF NoRowIsLost
<1>11. ReadersApart(v)'
  <2>1. ASSUME NEW q \in ReadersOf(v)
        PROVE  /\ row'[q] = 0 => read'[q] = "resting"
               /\ q \in settled' => row'[q] = 0
               /\ row'[q] \notin results[v]
               /\ \A p \in ReadersOf(v) : row'[q] # 0 /\ row'[p] = row'[q] => p = q
    <3>1. q # r => ReaderStays(q)
      BY <1>7, <1>9
    <3>2. row'[q] = 0 => read'[q] = "resting"
      BY <1>1, <1>2, <1>9, <3>1 DEF ReaderStays, ReadersApart
    <3>3. q \in settled' => row'[q] = 0
      BY <1>2, <1>3, <1>9 DEF ReadersApart
    <3>4. \A p \in ReadersOf(v) : row'[q] # 0 /\ row'[p] = row'[q] => p = q
      BY <1>2, <1>9 DEF ReadersApart
    <3> QED BY <1>2, <1>9, <1>10, <3>2, <3>3, <3>4 DEF ReadersApart
  <2> QED BY <1>3, <2>1 DEF ReadersApart, ReadersOf
<1>12. NoRowIsLost(v)'
  <2>1. \A p \in ReadersOf(v) : row'[p] <= cursor[v]
    BY <1>2, <1>4, <1>9 DEF NoRowIsLost
  <2> QED BY <1>2, <1>3, <1>4, <2>1 DEF NoRowIsLost, ReadersOf
<1>13. VaultInv(v)'
  BY <1>2, <1>3, <1>11, <1>12 DEF VaultInv, turnVars
<1> QED BY <1>1, <1>5, <1>6, <1>8, <1>13 DEF ScansIInv

-----------------------------------------------------------------------------
(* A step of the vault v: the other vaults keep their scans, and at most   *)
(* one of them has its turn.                                               *)
LEMMA OthersAreLeft ==
    ASSUME ScansIInv, NEW v \in Vaults, UNCHANGED <<row, read>>,
           \A r \in Readers \ ReadersOf(v) : r \in settled' <=> r \in settled,
           NEW w \in Vaults, w # v, ScanStays(w), TurnStays(w)
    PROVE  VaultInv(w)'
<1>1. \A r \in ReadersOf(w) : r \in Readers /\ r \notin ReadersOf(v)
  BY ReaderOf
<1>2. VaultInv(w) /\ \A r \in ReadersOf(w) : ReaderStays(r)
  BY <1>1 DEF ScansIInv, ReaderStays
<1> QED BY <1>2, VaultStays

(* The rows of a scan that is over are used or dropped.                    *)
LEMMA RowsAreUsed ==
    ASSUME NEW v \in Vaults, VaultInv(v), scan[v] # "reading",
           UNCHANGED <<cursor, failed, rowVars, slotVars>>,
           \/ ScanStays(v)
           \/ scan'[v] = "none" /\ results'[v] = {},
           turn'[v] \in {"waiting", "started"} => scan'[v] = "whole"
    PROVE  VaultInv(v)'
<1>1. AtRest(v) /\ ReadersApart(v)
  BY DEF VaultInv
<1>2. scan'[v] # "reading" /\ results'[v] = IF scan'[v] = "whole" THEN 1..Rows[v] ELSE {}
  <2>1. CASE ScanStays(v)
    BY <1>1, <2>1 DEF AtRest, ScanStays
  <2>2. CASE scan'[v] = "none" /\ results'[v] = {}
    BY <2>2
  <2> QED BY <2>1, <2>2
<1>3. AtRest(v)'
  BY <1>1, <1>2 DEF AtRest, ReadersOf, rowVars
<1>4. 0 \notin results'[v]
  BY <1>2, ScanNumbers
<1>5. ReadersApart(v)'
  BY <1>1, <1>4 DEF AtRest, ReadersApart, ReadersOf, rowVars, slotVars
<1> QED BY <1>2, <1>3, <1>5 DEF VaultInv

LEMMA DropRowsTypes ==
    ASSUME ScansIInv, NEW v \in Vaults, DropRows(v)
    PROVE  /\ ScansType' /\ ReadsSound'
           /\ scan'[v] = "none" /\ results'[v] = {}
           /\ \A w \in Vaults \ {v} : ScanStays(w)
<1>1. /\ scan' = [scan EXCEPT ![v] = "none"] /\ results' = [results EXCEPT ![v] = {}]
      /\ UNCHANGED <<cursor, failed, row, slotVars>>
  BY DEF DropRows, rowVars
<1>2. ScansType'
  <2>1. UNCHANGED cursor /\ UNCHANGED failed /\ UNCHANGED row
    BY <1>1
  <2>2. {} \in SUBSET Nat /\ "none" \in {"none", "reading", "whole", "failed"}
    OBVIOUS
  <2> QED BY <1>1, <2>1, <2>2, TypeNext DEF ScansIInv
<1>3. ReadsSound'
  BY <1>1, SoundStays DEF ScansIInv, slotVars
<1> QED BY <1>1, <1>2, <1>3 DEF ScansIInv, ScansType, ScanStays

(* A vault without a scan in progress ends its cycle or its turn: its rows *)
(* are kept or dropped.                                                    *)
LEMMA CycleGoesOn ==
    ASSUME ScansIInv, NEW v \in Vaults, scan[v] # "reading", TurnsSound',
           \/ DropRows(v)
           \/ UNCHANGED <<scanVars, rowVars, slotVars>>,
           turn'[v] \in {"waiting", "started"} => scan'[v] = "whole",
           \A w \in Vaults \ {v} : TurnStays(w)
    PROVE  ScansIInv'
<1>1. /\ ScansType' /\ ReadsSound' /\ \A w \in Vaults \ {v} : ScanStays(w)
      /\ UNCHANGED <<cursor, failed, rowVars, slotVars>>
      /\ ScanStays(v) \/ (scan'[v] = "none" /\ results'[v] = {})
  <2>1. CASE DropRows(v)
    <3>1. UNCHANGED <<cursor, failed, rowVars, slotVars>>
      BY <2>1 DEF DropRows
    <3> QED BY <2>1, <3>1, DropRowsTypes
  <2>2. CASE UNCHANGED <<scanVars, rowVars, slotVars>>
    <3>1. ReadsSound'
      BY <2>2, SoundStays DEF ScansIInv, slotVars
    <3> QED BY <2>2, <3>1 DEF ScansIInv, ScansType, ScanStays, scanVars, rowVars
  <2> QED BY <2>1, <2>2
<1>2. ASSUME NEW w \in Vaults, w # v PROVE VaultInv(w)'
  <2>1. UNCHANGED <<row, read>> /\ settled' = settled
    BY <1>1 DEF rowVars, slotVars
  <2>2. ScanStays(w) /\ TurnStays(w)
    BY <1>1, <1>2
  <2> QED BY <1>2, <2>1, <2>2, OthersAreLeft
<1>3. VaultInv(v)'
  <2>1. VaultInv(v)
    BY DEF ScansIInv
  <2> QED BY <1>1, <2>1, RowsAreUsed
<1> QED BY <1>1, <1>2, <1>3 DEF ScansIInv

LEMMA IdleKeeps ==
    ASSUME ScansIInv, NEW v \in Vaults, Idle(v)
    PROVE  ScansIInv'
<1>1. scan[v] # "reading" /\ turn[v] = "resting" /\ DropRows(v) /\ UNCHANGED <<active, queue, turn>>
  BY DEF Idle, turnVars
<1>2. TurnsSound' /\ \A w \in Vaults : TurnStays(w)
  BY <1>1, SoundStays DEF ScansIInv, TurnStays
<1> QED BY <1>1, <1>2, CycleGoesOn

LEMMA PlanKeeps ==
    ASSUME ScansIInv, NEW v \in Vaults, Plan(v)
    PROVE  ScansIInv'
<1>1. TurnsSound' /\ \A w \in Vaults \ {v} : turn'[w] = turn[w]
  BY TurnSought DEF Plan, ScansIInv
<1>2. scan[v] = "whole" /\ scan'[v] = "whole" /\ UNCHANGED <<scanVars, rowVars, slotVars>>
  BY DEF Plan, scanVars
<1>3. \A w \in Vaults \ {v} : TurnStays(w)
  BY <1>1 DEF TurnStays
<1> QED BY <1>1, <1>2, <1>3, CycleGoesOn

LEMMA StartJobKeeps ==
    ASSUME ScansIInv, NEW v \in Vaults, StartJob(v)
    PROVE  ScansIInv'
<1>1. /\ TurnsSound' /\ turn[v] = "started" /\ turn'[v] = "running"
      /\ \A w \in Vaults \ {v} : turn'[w] = turn[w]
  BY TurnComes DEF StartJob, ScansIInv
<1>2. scan[v] # "reading"
  BY <1>1 DEF ScansIInv, VaultInv
<1>3. DropRows(v) \/ UNCHANGED <<scanVars, rowVars, slotVars>>
  BY DEF StartJob
<1>4. \A w \in Vaults \ {v} : TurnStays(w)
  BY <1>1 DEF TurnStays
<1> QED BY <1>1, <1>2, <1>3, <1>4, CycleGoesOn

LEMMA EndJobKeeps ==
    ASSUME ScansIInv, NEW v \in Vaults, EndJob(v)
    PROVE  ScansIInv'
<1>1. TurnsSound' /\ turn'[v] = "resting" /\ OthersServed(Vaults, turn, turn', v)
  BY TurnEnds DEF EndJob, ScansIInv
<1>2. scan[v] # "reading" /\ DropRows(v)
  BY DEF EndJob
<1>3. \A w \in Vaults \ {v} : TurnStays(w)
  BY <1>1 DEF TurnStays, OthersServed
<1> QED BY <1>1, <1>2, <1>3, CycleGoesOn

LEMMA StopServiceKeeps ==
    ASSUME ScansIInv, StopService
    PROVE  ScansIInv'
<1>1. /\ TurnsSound'
      /\ \A v \in Vaults : turn'[v] \in {"waiting", "started"} => turn[v] = "started"
  BY TurnsCalledOff DEF StopService, ScansIInv
<1>2. UNCHANGED <<scan, cursor, failed, results, row, settled, slots, pending, read>>
  BY DEF StopService, scanVars, rowVars, slotVars
<1>3. ScansType' /\ ReadsSound'
  BY <1>2, SoundStays DEF ScansIInv, ScansType
<1>4. ASSUME NEW v \in Vaults PROVE VaultInv(v)'
  <2>1. VaultInv(v) /\ ScanStays(v) /\ TurnStays(v)
    BY <1>1, <1>2 DEF ScansIInv, ScanStays, TurnStays
  <2>2. \A r \in ReadersOf(v) : ReaderStays(r)
    BY <1>2 DEF ReaderStays
  <2> QED BY <2>1, <2>2, VaultStays
<1> QED BY <1>1, <1>3, <1>4 DEF ScansIInv

LEMMA BeginScanKeeps ==
    ASSUME ScansIInv, NEW v \in Vaults, BeginScan(v)
    PROVE  ScansIInv'
<1>1. /\ scan[v] \in {"none", "failed"} /\ turn[v] \notin {"waiting", "started"}
      /\ scan' = [scan EXCEPT ![v] = "reading"]
      /\ UNCHANGED <<turnVars, cursor, failed, results, rowVars, slotVars>>
  BY DEF BeginScan
<1>2. ScansType'
  <2>1. UNCHANGED cursor /\ UNCHANGED failed /\ UNCHANGED results /\ UNCHANGED row
    BY <1>1 DEF rowVars
  <2> QED BY <1>1, <2>1, TypeNext DEF ScansIInv
<1>3. TurnsSound' /\ ReadsSound'
  BY <1>1, SoundStays DEF ScansIInv, turnVars, slotVars
<1>4. scan'[v] = "reading" /\ \A w \in Vaults \ {v} : ScanStays(w)
  BY <1>1 DEF ScansIInv, ScansType, ScanStays
<1>5. UNCHANGED <<row, read, settled, turn>>
  BY <1>1 DEF rowVars, slotVars, turnVars
<1>6. ASSUME NEW w \in Vaults, w # v PROVE VaultInv(w)'
  <2>1. ScanStays(w) /\ TurnStays(w)
    BY <1>4, <1>5, <1>6 DEF TurnStays
  <2> QED BY <1>5, <1>6, <2>1, OthersAreLeft
<1>7. VaultInv(v)'
  <2>1. AtRest(v) /\ ReadersApart(v)
    BY <1>1 DEF ScansIInv, VaultInv
  <2>2. results[v] = {} /\ cursor[v] = 0
    BY <1>1, <2>1 DEF AtRest
  <2>3. ReadersApart(v)'
    BY <1>1, <1>5, <2>1 DEF ReadersApart, ReadersOf
  <2>4. NoRowIsLost(v)'
    <3>1. \A r \in ReadersOf(v) : row[r] = 0 /\ r \notin settled
      BY <2>1 DEF AtRest
    <3>2. 1..0 = {} /\ 0 <= Rows[v]
      BY ScanNumbers
    <3> QED BY <1>1, <1>5, <2>2, <3>1, <3>2 DEF NoRowIsLost, ReadersOf
  <2> QED BY <1>1, <1>4, <1>5, <2>3, <2>4 DEF VaultInv
<1> QED BY <1>2, <1>3, <1>6, <1>7 DEF ScansIInv

(* All readers have left: either a read failed or all rows are in hand.    *)
LEMMA DrainedIsWhole ==
    ASSUME ScansIInv, NEW v \in Vaults, scan[v] = "reading", IsDrained(v)
    PROVE  /\ \A r \in ReadersOf(v) : row[r] = 0 /\ read[r] = "resting"
           /\ failed[v] \/ results[v] = 1..Rows[v]
<1>1. NoRowIsLost(v) /\ ReadersApart(v) /\ cursor[v] \in Nat
  BY DEF ScansIInv, VaultInv, ScansType
<1>2. \A r \in ReadersOf(v) : row[r] = 0 /\ read[r] = "resting"
  BY <1>1 DEF IsDrained, ReadersApart
<1>3. ASSUME ~failed[v] PROVE results[v] = 1..Rows[v]
  <2>1. cursor[v] = Rows[v]
    <3>1. CASE Rows[v] = 0
      BY <1>1, <3>1 DEF NoRowIsLost
    <3>2. CASE Rows[v] # 0
      <4>1. 1 \in {i \in 1..Concurrency : i <= Rows[v]}
        BY <3>2, ScanNumbers
      <4>2. <<v, 1>> \in ReadersOf(v)
        BY <4>1 DEF ReadersOf
      <4> QED BY <1>1, <1>3, <4>2 DEF NoRowIsLost, IsDrained
    <3> QED BY <3>1, <3>2
  <2>2. \A k \in 1..cursor[v] : k \in results[v]
    <3>1. \A k \in 1..cursor[v] : k # 0
      OBVIOUS
    <3> QED BY <1>1, <1>2, <1>3, <3>1 DEF NoRowIsLost
  <2> QED BY <1>1, <2>1, <2>2 DEF NoRowIsLost
<1> QED BY <1>2, <1>3

LEMMA EndScanKeeps ==
    ASSUME ScansIInv, NEW v \in Vaults, EndScan(v)
    PROVE  ScansIInv'
<1>1. /\ scan[v] = "reading" /\ IsDrained(v)
      /\ scan' = [scan EXCEPT ![v] = IF failed[v] THEN "failed" ELSE "whole"]
      /\ results' = [results EXCEPT ![v] = IF failed[v] THEN {} ELSE results[v]]
      /\ cursor' = [cursor EXCEPT ![v] = 0]
      /\ failed' = [failed EXCEPT ![v] = FALSE]
      /\ settled' = settled \ ReadersOf(v)
      /\ UNCHANGED <<turnVars, row, slotVars>>
  BY DEF EndScan
<1>2. PICK s \in {"failed", "whole"}, k \in SUBSET Nat :
        /\ s = (IF failed[v] THEN "failed" ELSE "whole")
        /\ k = (IF failed[v] THEN {} ELSE results[v])
  BY DEF ScansIInv, ScansType
<1>3. /\ scan'[v] = s /\ results'[v] = k /\ cursor'[v] = 0 /\ ~failed'[v]
      /\ \A w \in Vaults \ {v} : ScanStays(w)
  BY <1>1, <1>2 DEF ScansIInv, ScansType, ScanStays
<1>4. ScansType'
  <2>1. UNCHANGED row /\ 0 \in Nat /\ s \in {"none", "reading", "whole", "failed"}
    BY <1>1, <1>2
  <2> QED BY <1>1, <1>2, <2>1, TypeNext DEF ScansIInv
<1>5. TurnsSound' /\ ReadsSound'
  BY <1>1, SoundStays DEF ScansIInv, turnVars, slotVars
<1>6. UNCHANGED <<row, read, turn>>
  BY <1>1 DEF slotVars, turnVars
<1>7. ASSUME NEW w \in Vaults, w # v PROVE VaultInv(w)'
  <2>1. ScanStays(w) /\ TurnStays(w)
    BY <1>3, <1>6, <1>7 DEF TurnStays
  <2>2. \A r \in Readers \ ReadersOf(v) : r \in settled' <=> r \in settled
    BY <1>1
  <2> QED BY <1>6, <1>7, <2>1, <2>2, OthersAreLeft
<1>8. VaultInv(v)'
  <2>1. /\ \A r \in ReadersOf(v) : row[r] = 0 /\ read[r] = "resting" /\ r \notin settled'
        /\ failed[v] \/ results[v] = 1..Rows[v]
    BY <1>1, DrainedIsWhole
  <2>2. k = IF s = "whole" THEN 1..Rows[v] ELSE {}
    BY <1>2, <2>1
  <2>3. AtRest(v)'
    BY <1>3, <1>6, <2>1, <2>2 DEF AtRest, ReadersOf
  <2>4. 0 \notin k
    BY <2>2, ScanNumbers
  <2>5. ReadersApart(v)'
    BY <1>3, <1>6, <2>1, <2>4 DEF ReadersApart, ReadersOf
  <2>6. turn[v] \notin {"waiting", "started"}
    BY <1>1 DEF ScansIInv, VaultInv
  <2> QED BY <1>2, <1>3, <1>6, <2>3, <2>5, <2>6 DEF VaultInv
<1> QED BY <1>4, <1>5, <1>7, <1>8 DEF ScansIInv

LEMMA ScansNext_IInv == ScansIInv /\ [ScansNext]_scansVars => ScansIInv'
<1> SUFFICES ASSUME ScansIInv, [ScansNext]_scansVars PROVE ScansIInv'
  OBVIOUS
<1>1. CASE StopService
  BY <1>1, StopServiceKeeps
<1>2. ASSUME NEW v \in Vaults, Cycle(v) PROVE ScansIInv'
  BY <1>2, BeginScanKeeps, EndScanKeeps, IdleKeeps, PlanKeeps, StartJobKeeps, EndJobKeeps
     DEF Cycle
<1>3. ASSUME NEW r \in Readers, Proceed(r) PROVE ScansIInv'
  BY <1>3, TakeRowKeeps, LeaveScanKeeps, RequestKeeps, RetryKeeps DEF Proceed
<1>4. ASSUME NEW r \in Readers, EndRead(r) PROVE ScansIInv'
  BY <1>4, ReadRowKeeps, InterruptKeeps, GiveUpReadKeeps DEF EndRead
<1>5. CASE UNCHANGED scansVars
  <2>1. /\ UNCHANGED <<scan, cursor, failed, results, row, settled>>
        /\ UNCHANGED <<active, queue, turn>> /\ UNCHANGED <<slots, pending, read>>
    BY <1>5 DEF scansVars, turnVars, scanVars, rowVars, slotVars
  <2>2. ScansType' /\ TurnsSound' /\ ReadsSound'
    BY <2>1, SoundStays DEF ScansIInv, ScansType
  <2>3. ASSUME NEW v \in Vaults PROVE VaultInv(v)'
    <3>1. VaultInv(v) /\ ScanStays(v) /\ TurnStays(v)
      BY <2>1 DEF ScansIInv, ScanStays, TurnStays
    <3>2. \A r \in ReadersOf(v) : ReaderStays(r)
      BY <2>1 DEF ReaderStays
    <3> QED BY <3>1, <3>2, VaultStays
  <2> QED BY <2>2, <2>3 DEF ScansIInv
<1> QED BY <1>1, <1>2, <1>3, <1>4, <1>5 DEF ScansNext

(* THEOREM: the inductive invariant of the scans: both limiters are sound, *)
(* a scan in progress has every row behind its cursor read or in the hands *)
(* of one reader until a read fails, and a scan that is over has left no   *)
(* reader at work (mapReads and withReadSlot in readConcurrency.mjs,       *)
(* ExecutionLimiter.run).                                                  *)
THEOREM ScansInductive == ScansSpec => []ScansIInv
<1> QED BY ScansInit_IInv, ScansNext_IInv, PTL DEF ScansSpec

(* THEOREM: whatever the number of vaults, rows, readers and slots, and in *)
(* every order of their steps, neither limiter loses or makes a slot, and  *)
(* none is idle while somebody waits for it (ExecutionLimiter.run,         *)
(* withReadSlot).                                                          *)
THEOREM LimitersHold == ScansSpec => []LimitsHold
<1>1. ScansIInv => LimitsHold
  BY IInvHolds
<1> QED BY <1>1, ScansInductive, PTL

(* THEOREM: a vault plans on all of its enrolled users or on none, and a   *)
(* scan that failed leaves no read behind, whichever reads failed or were  *)
(* repeated (mapReads).                                                    *)
THEOREM ScansAreWhole == ScansSpec => []ScanIsWhole
<1>1. ScansIInv => ScanIsWhole
  BY IInvHolds
<1> QED BY <1>1, ScansInductive, PTL
=============================================================================
