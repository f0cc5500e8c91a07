--------------------------- MODULE ExecutorJournal ---------------------------
(***************************************************************************)
(* One vault's executor (executor/worker.mjs, journal.mjs and              *)
(* u124Adapter.mjs): the cycle reconcile, scan, execute; the journal that  *)
(* survives it; the wallet driver it spawns, which survives it too; and    *)
(* the chain, which may include what was broadcast, or not.                *)
(*                                                                         *)
(* The processes share the lock of VaultMutex, which VaultLock implements. *)
(* A journal record is published by one link(2), so it is there or not; a  *)
(* process may end between any two records.  The records "planned" and     *)
(* "proved" are left out: they only save proving a task again.             *)
(*                                                                         *)
(* An attempt is named by its submission log, which has a fresh name.      *)
(*                                                                         *)
(* A definition whose comment starts with "Faulty" is the next one with a  *)
(* plausible mistake.  Nothing uses it; it shows that a property notices.  *)
(***************************************************************************)
EXTENDS VaultMutex, Integers, Sequences, FiniteSets, FiniteSetsExt

CONSTANTS
    Tasks,        \* what the vault's public state may call for
    NoTask,       \* it calls for nothing
    MaxAttempts   \* bound: broadcast intents in the journal

ASSUME TaskAssumption == NoTask \notin Tasks /\ MaxAttempts \in Nat

VARIABLES
    journal,   \* the records of the vault's journal, oldest first
    job,       \* job[p]: where p is in its cycle
    task,      \* task[p]: the task p has scanned
    todo,      \* todo[p]: the pending intents p has still to reconcile
    driver,    \* driver[a]: what the driver process of attempt a does
    log,       \* log[a]: what the submission log of attempt a holds
    chain,     \* chain[a]: what the chain has made of attempt a
    current    \* the task the public state calls for now

Attempts == 1 .. MaxAttempts

files == <<journal, log>>
process == <<job, task, todo>>
world == <<driver, chain, current>>
journalVars == <<mutexVars, files, process, world>>

JournalInit ==
    /\ MutexInit
    /\ journal = <<>>
    /\ job = [p \in Executors |-> "idle"]
    /\ task = [p \in Executors |-> NoTask]
    /\ todo = [p \in Executors |-> {}]
    /\ driver = [a \in Attempts |-> "none"]
    /\ log = [a \in Attempts |-> "none"]
    /\ chain = [a \in Attempts |-> "absent"]
    /\ current \in Tasks \cup {NoTask}

-----------------------------------------------------------------------------
(* The records.  Only an intent names its attempt, by the submission log   *)
(* in its proof; the others name the task alone.                           *)

Intent(t, a)     == [status |-> "broadcast-intent", task |-> t, attempt |-> a]
Result(t, o)     == [status |-> "broadcast-result", task |-> t, outcome |-> o]
NotSubmitted(t)  == [status |-> "not-submitted", task |-> t]
Included(t)      == [status |-> "included", task |-> t]

Write(record) == journal' = Append(journal, record)

Intents(records) == {i \in DOMAIN records : records[i].status = "broadcast-intent"}

(* A record after i resolves the intent of its task.                       *)
Resolves(records, i, j) ==
    /\ j > i
    /\ records[j].task = records[i].task
    /\ records[j].status \in {"included", "not-submitted", "broadcast-intent"}

(* The positions of the unresolved intents, the last of each task.         *)
Pending(records) ==
    {i \in Intents(records) : \A j \in DOMAIN records : ~Resolves(records, i, j)}

IsIncluded(t) == \E i \in DOMAIN journal : journal[i] = Included(t)

(* Faulty: the result of an earlier attempt counts as well.                *)
ResultsOfTask(i) ==
    {j \in DOMAIN journal : /\ journal[j].status = "broadcast-result"
                            /\ journal[j].task = journal[i].task}

(* The results of the attempt at i are those of its task behind it.        *)
ResultsOf(i) ==
    {j \in DOMAIN journal : /\ j > i
                            /\ journal[j].status = "broadcast-result"
                            /\ journal[j].task = journal[i].task}

RecordedOutcome(i) ==
    IF ResultsOf(i) = {} THEN "none"
    ELSE journal[CHOOSE j \in ResultsOf(i) : \A k \in ResultsOf(i) : k <= j].outcome

-----------------------------------------------------------------------------
(* What a log and the chain say of an attempt (inspectU124Submission, the  *)
(* adapter's reconcile and the receipt reader).                            *)

(* Faulty: a log without a leaf is taken for a rejection.                  *)
VerdictOfSilence(a, outcome) ==
    IF log[a] # "leaf" /\ outcome # "leaf" THEN "not-submitted"
    ELSE IF chain[a] = "included" THEN "included" ELSE "unresolved"

(* Faulty: only the recorded outcome is asked for the leaf.                *)
VerdictOfResult(a, outcome) ==
    IF log[a] = "rejected" THEN "not-submitted"
    ELSE IF outcome = "leaf" /\ chain[a] = "included" THEN "included"
    ELSE "unresolved"

Verdict(a, outcome) ==
    IF log[a] = "rejected" THEN "not-submitted"
    ELSE IF "leaf" \in {log[a], outcome} /\ chain[a] = "included" THEN "included"
    ELSE "unresolved"

-----------------------------------------------------------------------------
(* Processes.                                                              *)

Rest(p) ==
    /\ job' = [job EXCEPT ![p] = "idle"]
    /\ task' = [task EXCEPT ![p] = NoTask]
    /\ todo' = [todo EXCEPT ![p] = {}]

Begin(p) == Boot(p) /\ UNCHANGED <<files, process, world>>

(* The process ends or is killed, at any point.  Its driver lives on.      *)
End(p) == Stop(p) /\ Rest(p) /\ UNCHANGED <<files, world>>

(* Power fails: every process ends, and a log that no parent has synced    *)
(* may lose what was written to it.                                        *)
Synced(a) == \E i \in DOMAIN journal :
    journal[i] = Intent(journal[i].task, a) /\ ResultsOf(i) # {}

PowerLoss ==
    /\ alive' = {} /\ inside' = {}
    /\ job' = [p \in Executors |-> "idle"]
    /\ task' = [p \in Executors |-> NoTask]
    /\ todo' = [p \in Executors |-> {}]
    /\ driver' = [a \in Attempts |-> IF driver[a] = "none" THEN "none" ELSE "over"]
    /\ \E lost \in SUBSET {a \in Attempts : log[a] # "none" /\ ~Synced(a)} :
           log' = [a \in Attempts |-> IF a \in lost THEN "empty" ELSE log[a]]
    /\ UNCHANGED <<journal, chain, current>>

-----------------------------------------------------------------------------
(* reconcile: every pending attempt is judged, the oldest first.           *)

BeginReconcile(p) ==
    /\ job[p] = "idle"
    /\ Enter(p)
    /\ job' = [job EXCEPT ![p] = "reconciling"]
    /\ todo' = [todo EXCEPT ![p] = Pending(journal)]
    /\ UNCHANGED <<files, task, world>>

Judge(p) ==
    /\ job[p] = "reconciling"
    /\ todo[p] # {}
    /\ LET i       == Min(todo[p])
           outcome == RecordedOutcome(i)
           verdict == IF outcome = "not-submitted" THEN outcome
                      ELSE Verdict(journal[i].attempt, outcome)
       IN  journal' = CASE verdict = "not-submitted" -> Append(journal, NotSubmitted(journal[i].task))
                        [] verdict = "included"      -> Append(journal, Included(journal[i].task))
                        [] OTHER                     -> journal
    /\ todo' = [todo EXCEPT ![p] = @ \ {Min(@)}]
    /\ UNCHANGED <<mutexVars, log, job, task, world>>

(* The leaf of the next attempt is known, and its receipt asked for.       *)
AsksReceipt(p) ==
    /\ job[p] = "reconciling"
    /\ todo[p] # {}
    /\ LET i       == Min(todo[p])
           outcome == RecordedOutcome(i)
       IN  "leaf" \in {outcome, log[journal[i].attempt]}

(* It cannot be read: the cycle fails, and is tried again later.           *)
ReadFails(p) == AsksReceipt(p) /\ Leave(p) /\ Rest(p) /\ UNCHANGED <<files, world>>

(* The indexer does not show the transaction yet: the attempt stays        *)
(* pending, whatever the chain has done with it.                           *)
IndexerLags(p) ==
    /\ AsksReceipt(p)
    /\ chain[journal[Min(todo[p])].attempt] = "included"
    /\ todo' = [todo EXCEPT ![p] = @ \ {Min(@)}]
    /\ UNCHANGED <<mutexVars, files, job, task, world>>

EndReconcile(p) ==
    /\ job[p] = "reconciling"
    /\ todo[p] = {}
    /\ Leave(p)
    /\ job' = [job EXCEPT ![p] = "reconciled"]
    /\ UNCHANGED <<files, task, todo, world>>

-----------------------------------------------------------------------------
(* scan and execute.                                                       *)

(* The cycle reads the journal without the lock, then the public state.    *)
Scan(p) ==
    /\ job[p] = "reconciled"
    /\ IF Pending(journal) = {} /\ current # NoTask
       THEN /\ job' = [job EXCEPT ![p] = "scanned"]
            /\ task' = [task EXCEPT ![p] = current]
            /\ UNCHANGED todo
       ELSE Rest(p)
    /\ UNCHANGED <<mutexVars, files, world>>

(* Faulty: a task that was included may run again.                         *)
MayExecuteAgain(t) == Pending(journal) = {} /\ t = current

(* No attempt is pending, the task was not done, and is still called for.  *)
MayExecute(t) == Pending(journal) = {} /\ ~IsIncluded(t) /\ t = current

BeginExecute(p) ==
    /\ job[p] = "scanned"
    /\ Enter(p)
    /\ job' = [job EXCEPT ![p] = IF MayExecute(task[p]) THEN "proving" ELSE "refused"]
    /\ UNCHANGED <<files, task, todo, world>>

(* A refusal, a stale task or a finished attempt: the lock is released.    *)
Finish(p) ==
    /\ Leave(p)
    /\ Rest(p)
    /\ UNCHANGED <<files, world>>

Refuse(p) == job[p] = "refused" /\ Finish(p)

(* The proof fails, or the task went stale during it.                      *)
GiveUp(p) == job[p] = "proving" /\ Finish(p)

LastIntent == Max(Intents(journal) \cup {0})

NextAttempt == 1 + Cardinality(Intents(journal))

(* The task is still called for: the intent is on disk before the driver   *)
(* runs.                                                                   *)
Intend(p) ==
    /\ job[p] = "proving"
    /\ task[p] = current
    /\ NextAttempt \in Attempts
    /\ Write(Intent(task[p], NextAttempt))
    /\ job' = [job EXCEPT ![p] = "intended"]
    /\ UNCHANGED <<mutexVars, log, task, todo, world>>

(* The driver is spawned with the log; or it cannot be.                    *)
Spawn(p) ==
    /\ job[p] = "intended"
    /\ LET a == journal[LastIntent].attempt
       IN  /\ log' = [log EXCEPT ![a] = "empty"]
           /\ \E state \in {"running", "over"} : driver' = [driver EXCEPT ![a] = state]
    /\ job' = [job EXCEPT ![p] = "waiting"]
    /\ UNCHANGED <<mutexVars, journal, task, todo, chain, current>>

(* The driver is over; what its log says is recorded.                      *)
Outcome(a) ==
    CASE log[a] = "rejected" -> "not-submitted"
      [] log[a] = "leaf"     -> "leaf"
      [] OTHER               -> "unknown"

RecordResult(p) ==
    /\ job[p] = "waiting"
    /\ LET a == journal[LastIntent].attempt
       IN  driver[a] = "over" /\ Write(Result(task[p], Outcome(a)))
    /\ job' = [job EXCEPT ![p] = "answered"]
    /\ UNCHANGED <<mutexVars, log, task, todo, world>>

(* A rejection is recorded, or an inclusion that is there already; else    *)
(* the attempt stays pending.                                              *)
Conclude(p) ==
    /\ job[p] = "answered"
    /\ LET outcome == RecordedOutcome(LastIntent)
           found   == outcome = "leaf" /\ chain[journal[LastIntent].attempt] = "included"
       IN  \/ outcome = "not-submitted" /\ Write(NotSubmitted(task[p]))
           \/ found /\ Write(Included(task[p]))
           \/ outcome # "not-submitted" /\ UNCHANGED journal
    /\ Leave(p)
    /\ Rest(p)
    /\ UNCHANGED <<log, world>>

-----------------------------------------------------------------------------
(* The driver (wallet_driver.rs): it proves and checks, announces the leaf *)
(* it is about to broadcast in its log, and only then broadcasts.          *)

Drive(a, from, to) == driver[a] = from /\ driver' = [driver EXCEPT ![a] = to]

Reject(a) ==
    /\ Drive(a, "running", "over")
    /\ log' = [log EXCEPT ![a] = "rejected"]
    /\ UNCHANGED <<mutexVars, journal, process, chain, current>>

Announce(a) ==
    /\ Drive(a, "running", "announced")
    /\ log' = [log EXCEPT ![a] = "leaf"]
    /\ UNCHANGED <<mutexVars, journal, process, chain, current>>

(* The request may reach the chain, whatever the answer was.               *)
Transmit(a) ==
    /\ Drive(a, "announced", "over")
    /\ \E fate \in {"absent", "pending"} : chain' = [chain EXCEPT ![a] = fate]
    /\ UNCHANGED <<mutexVars, files, process, current>>

(* The driver is killed: by a timeout, or with its parent.                 *)
Kill(a) ==
    /\ driver[a] \in {"running", "announced"}
    /\ driver' = [driver EXCEPT ![a] = "over"]
    /\ UNCHANGED <<mutexVars, files, process, chain, current>>

-----------------------------------------------------------------------------
(* The chain.  It includes a transaction only while the public state calls *)
(* for its task, and the state moves on with it.                           *)

TaskOf(a) == journal[CHOOSE i \in Intents(journal) : journal[i].attempt = a].task

Include(a) ==
    /\ chain[a] = "pending"
    /\ TaskOf(a) = current
    /\ chain' = [chain EXCEPT ![a] = "included"]
    /\ current' \in (Tasks \cup {NoTask}) \ {current}
    /\ UNCHANGED <<mutexVars, files, process, driver>>

Drop(a) ==
    /\ chain[a] = "pending"
    /\ chain' = [chain EXCEPT ![a] = "dropped"]
    /\ UNCHANGED <<mutexVars, files, process, driver, current>>

(* Other users' transactions change what the state calls for.              *)
Evolve ==
    /\ current' \in Tasks \cup {NoTask}
    /\ UNCHANGED <<mutexVars, files, process, driver, chain>>

-----------------------------------------------------------------------------
Work(p) ==
    \/ BeginReconcile(p)
    \/ Judge(p) \/ ReadFails(p) \/ IndexerLags(p) \/ EndReconcile(p)
    \/ Scan(p) \/ BeginExecute(p) \/ Refuse(p) \/ GiveUp(p)
    \/ Intend(p) \/ Spawn(p) \/ RecordResult(p) \/ Conclude(p)

Driver(a) == Reject(a) \/ Announce(a) \/ Transmit(a) \/ Kill(a)

JournalNext ==
    \/ \E p \in Executors : Begin(p) \/ End(p) \/ Work(p)
    \/ \E a \in Attempts : Driver(a) \/ Include(a) \/ Drop(a)
    \/ PowerLoss \/ Evolve

JournalSpec == JournalInit /\ [][JournalNext]_journalVars

(* Node runs a process that is alive, and a driver ends: its parent kills  *)
(* it after fifteen minutes, its own calls end otherwise.  A receipt that  *)
(* is asked for again and again is read in the end.                        *)
FairJournalSpec ==
    /\ JournalSpec
    /\ \A p \in Executors : WF_journalVars(Work(p)) /\ SF_journalVars(Judge(p))
    /\ \A a \in Attempts : WF_journalVars(Driver(a))
=============================================================================
