----------------------------- MODULE VaultScans -----------------------------
(***************************************************************************)
(* The cycles of all vaults of one service, as far as they compete: a      *)
(* vault scans its enrolled users (mapReads in                             *)
(* executor/readConcurrency.mjs), plans on the rows, waits for a slot of   *)
(* ExecutionLimiter, and its job scans again before it executes (isCurrent *)
(* in u124Adapter.mjs).  Every read holds one of the ReadLimit slots that  *)
(* all scans share (withReadSlot), a second limiter that nobody aborts.    *)
(*                                                                         *)
(* A row is one read here: its reads are alike and none of them waits for  *)
(* another one with its slot in hand.  The two scans of a job are one.     *)
(*                                                                         *)
(* A definition whose comment starts with "Faulty" is the next one with a  *)
(* plausible mistake.  Nothing uses it; it shows that a property notices.  *)
(***************************************************************************)
EXTENDS Integers, Sequences, FiniteSets

CONSTANTS
    Vaults,         \* the vaults of the service
    JobLimit,       \* maxConcurrentExecutions
    Rows,           \* Rows[v]: the users enrolled with v
    Concurrency,    \* readers of a scan: 4
    ReadLimit,      \* READ_RPC_LIMIT: 4
    ReadAttempts    \* attempts at a read: 3

ASSUME ScanAssumption ==
    /\ IsFiniteSet(Vaults) /\ Rows \in [Vaults -> Nat]
    /\ {JobLimit, Concurrency, ReadLimit, ReadAttempts} \subseteq Nat \ {0}

ReadersOf(v) == {v} \X {i \in 1..Concurrency : i <= Rows[v]}
Readers == UNION {ReadersOf(v) : v \in Vaults}

VARIABLES
    aborted,    \* the service was told to stop
    active,     \* the execution slots given away
    queue,      \* the vaults whose jobs wait for one, in order
    turn,       \* turn[v]: resting, waiting, started or running
    scan,       \* scan[v]: none, reading, whole (its rows are in hand) or failed
    cursor,     \* cursor[v]: the rows readers have taken
    failed,     \* failed[v]: some read of the scan was given up
    results,    \* results[v]: the rows that were read
    row,        \* row[r]: the row reader r is at, 0 between two rows
    tries,      \* tries[r]: the attempts at it
    settled,    \* the readers whose promise is settled
    slots,      \* the read slots given away
    pending,    \* the readers that wait for one, in order
    read        \* read[r]: resting, waiting, started or running

turnVars == <<aborted, active, queue, turn>>
scanVars == <<scan, cursor, failed, results>>
rowVars == <<row, tries, settled>>
slotVars == <<slots, pending, read>>
scansVars == <<turnVars, scanVars, rowVars, slotVars>>

Turns == INSTANCE ExecutionLimiter WITH
    Clients <- Vaults, Limit <- JobLimit, state <- turn

Reads == INSTANCE ExecutionLimiter WITH
    Clients <- Readers, Limit <- ReadLimit, active <- slots, queue <- pending, state <- read

ScansInit ==
    /\ aborted = FALSE /\ Turns!LimiterInit /\ Reads!LimiterInit
    /\ scan = [v \in Vaults |-> "none"]
    /\ cursor = [v \in Vaults |-> 0] /\ failed = [v \in Vaults |-> FALSE]
    /\ results = [v \in Vaults |-> {}]
    /\ row = [r \in Readers |-> 0] /\ tries = [r \in Readers |-> 0]
    /\ settled = {}

-----------------------------------------------------------------------------
(* A read takes a slot or joins the queue as it is called, and passes its  *)
(* slot on when it ends, whatever its end.                                 *)
AcquireRead(r) == Reads!Take(r) \/ Reads!Wait(r)

(* Faulty: the slot is freed, and the first in the queue is not started.   *)
ReleaseReadOnly(r) == Reads!FreeOnly(r)

(* Faulty: the slot is passed on and freed as well.                        *)
ReleaseReadTwice(r) == Reads!FreeAndHandOver(r)

ReleaseRead(r) == Reads!Finish(r)

(* The loop of a reader: the next row of the scan, unless a read failed.   *)
TakeRow(r) ==
    LET v == r[1] IN
    /\ scan[v] = "reading" /\ r \notin settled /\ row[r] = 0
    /\ ~failed[v] /\ cursor[v] < Rows[v]
    /\ cursor' = [cursor EXCEPT ![v] = @ + 1]
    /\ row' = [row EXCEPT ![r] = cursor[v] + 1]
    /\ tries' = [tries EXCEPT ![r] = 1]
    /\ AcquireRead(r)
    /\ UNCHANGED <<turnVars, scan, failed, results, settled>>

LeaveScan(r) ==
    LET v == r[1] IN
    /\ scan[v] = "reading" /\ r \notin settled /\ row[r] = 0
    /\ failed[v] \/ cursor[v] = Rows[v]
    /\ settled' = settled \cup {r}
    /\ UNCHANGED <<turnVars, scanVars, row, tries, slotVars>>

Request(r) == Reads!Go(r) /\ UNCHANGED <<turnVars, scanVars, rowVars>>

LetGo(r) == row' = [row EXCEPT ![r] = 0] /\ tries' = [tries EXCEPT ![r] = 0]

ReadRow(r) ==
    /\ ReleaseRead(r)
    /\ results' = [results EXCEPT ![r[1]] = @ \cup {row[r]}]
    /\ LetGo(r)
    /\ UNCHANGED <<turnVars, scan, cursor, failed, settled>>

(* The read failed in a way that may pass: it is repeated after a pause,   *)
(* for which the slot is given back.                                       *)
Interrupt(r) ==
    /\ ReleaseRead(r)
    /\ tries[r] < ReadAttempts
    /\ tries' = [tries EXCEPT ![r] = @ + 1]
    /\ UNCHANGED <<turnVars, scanVars, row, settled>>

Retry(r) ==
    /\ row[r] # 0
    /\ AcquireRead(r)
    /\ UNCHANGED <<turnVars, scanVars, rowVars>>

GiveUpRead(r) ==
    /\ ReleaseRead(r)
    /\ failed' = [failed EXCEPT ![r[1]] = TRUE]
    /\ LetGo(r)
    /\ settled' = settled \cup {r}
    /\ UNCHANGED <<turnVars, scan, cursor, results>>

EndRead(r) == ReadRow(r) \/ Interrupt(r) \/ GiveUpRead(r)

Proceed(r) == TakeRow(r) \/ LeaveScan(r) \/ Request(r) \/ Retry(r)

-----------------------------------------------------------------------------
(* A cycle scans, unless the service stops; a job scans once more.         *)
BeginScan(v) ==
    /\ \/ turn[v] = "resting" /\ scan[v] \in {"none", "failed"} /\ ~aborted
       \/ turn[v] = "running" /\ scan[v] = "none"
    /\ scan' = [scan EXCEPT ![v] = "reading"]
    /\ UNCHANGED <<turnVars, cursor, failed, results, rowVars, slotVars>>

(* Faulty: the first failure ends the scan (Promise.all).                  *)
FailedOrDrained(v) == failed[v] \/ ReadersOf(v) \subseteq settled

IsDrained(v) == ReadersOf(v) \subseteq settled

EndScan(v) ==
    /\ scan[v] = "reading"
    /\ IsDrained(v)
    /\ scan' = [scan EXCEPT ![v] = IF failed[v] THEN "failed" ELSE "whole"]
    /\ results' = [results EXCEPT ![v] = IF failed[v] THEN {} ELSE @]
    /\ cursor' = [cursor EXCEPT ![v] = 0]
    /\ failed' = [failed EXCEPT ![v] = FALSE]
    /\ settled' = settled \ ReadersOf(v)
    /\ UNCHANGED <<turnVars, row, tries, slotVars>>

DropRows(v) ==
    /\ scan' = [scan EXCEPT ![v] = "none"]
    /\ results' = [results EXCEPT ![v] = {}]
    /\ UNCHANGED <<cursor, failed, rowVars, slotVars>>

(* The rows call for nothing, or the service stops.                        *)
Idle(v) ==
    /\ scan[v] = "whole" /\ turn[v] = "resting"
    /\ DropRows(v) /\ UNCHANGED turnVars

(* The rows call for a task: its job takes a slot or waits for one.        *)
Plan(v) ==
    /\ scan[v] = "whole"
    /\ ~aborted
    /\ Turns!Take(v) \/ Turns!Wait(v)
    /\ UNCHANGED <<aborted, scanVars, rowVars, slotVars>>

(* After an abort the job ends without another scan.                       *)
StartJob(v) ==
    /\ Turns!Go(v)
    /\ IF aborted THEN UNCHANGED <<scanVars, rowVars, slotVars>> ELSE DropRows(v)
    /\ UNCHANGED aborted

EndJob(v) ==
    /\ scan[v] # "reading"
    /\ Turns!Finish(v) /\ DropRows(v)
    /\ UNCHANGED aborted

(* The service is told to stop: the jobs that wait are cancelled.          *)
StopService ==
    /\ ~aborted /\ aborted' = TRUE
    /\ Turns!Abort
    /\ UNCHANGED <<scanVars, rowVars, slotVars>>

Cycle(v) == BeginScan(v) \/ EndScan(v) \/ Idle(v) \/ Plan(v) \/ StartJob(v) \/ EndJob(v)

ScansNext ==
    \/ StopService
    \/ \E v \in Vaults : Cycle(v)
    \/ \E r \in Readers : Proceed(r) \/ EndRead(r)

ScansSpec == ScansInit /\ [][ScansNext]_scansVars

(* The event loop runs what is ready, a pause and a read end (retryRead    *)
(* and the request have timeouts), and so does an execution.               *)
ScansFairness ==
    /\ \A v \in Vaults : WF_scansVars(EndScan(v) \/ StartJob(v) \/ EndJob(v))
    /\ \A r \in Readers : WF_scansVars(Proceed(r) \/ EndRead(r))

FairScansSpec == ScansSpec /\ ScansFairness

-----------------------------------------------------------------------------
(* SAFETY: in both limiters no slot is lost or made (ExecutionLimiter.run, *)
(* withReadSlot), although scans fail, reads are repeated and jobs hold a  *)
(* slot of the one while they wait for slots of the other.                 *)
LimitsHold == Turns!SlotsAreExact /\ Reads!SlotsAreExact

(* SAFETY: a vault plans on every enrolled user or on nothing, no row is   *)
(* read by two readers, and a scan that was given up leaves no read behind *)
(* that the next one would compete with (mapReads: "A partial scan cannot  *)
(* reach a planner").                                                      *)
ScanIsWhole ==
    \A v \in Vaults :
        /\ scan[v] = "whole" => results[v] = 1..Rows[v]
        /\ \A r \in ReadersOf(v) :
            /\ scan[v] # "reading" => row[r] = 0 /\ read[r] = "resting"
            /\ row[r] \notin results[v]
            /\ \A q \in ReadersOf(v) : row[r] # 0 /\ row[q] = row[r] => q = r

(* LIVENESS: every scan ends and every vault that waits for a slot gets it *)
(* or is sent home, although a job that executes needs the read slots of   *)
(* the vaults that wait for it.                                            *)
EveryVaultProceeds ==
    \A v \in Vaults :
        (scan[v] = "reading" \/ turn[v] = "waiting")
            ~> (scan[v] # "reading" /\ turn[v] # "waiting")
=============================================================================
