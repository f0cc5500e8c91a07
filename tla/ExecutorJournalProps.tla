------------------------- MODULE ExecutorJournalProps -------------------------
(***************************************************************************)
(* What the journal of a vault must guarantee, with executors and drivers  *)
(* ending at any point, power failing, logs lost and broadcasts delayed or *)
(* dropped.                                                                *)
(***************************************************************************)
EXTENDS ExecutorJournal

Jobs == {"idle", "reconciling", "reconciled", "scanned", "refused", "proving",
         "intended", "waiting", "answered"}

Records ==
    [status : {"broadcast-intent"}, task : Tasks, attempt : Attempts]
    \cup [status : {"broadcast-result"}, task : Tasks, outcome : {"not-submitted", "leaf", "unknown"}]
    \cup [status : {"not-submitted", "included"}, task : Tasks]

(* TYPE: records, jobs, logs, drivers and the chain take their values.     *)
JournalTypeOK ==
    /\ alive \subseteq Executors /\ inside \subseteq alive
    /\ journal \in Seq(Records)
    /\ job \in [Executors -> Jobs]
    /\ task \in [Executors -> Tasks \cup {NoTask}]
    /\ todo \in [Executors -> SUBSET Intents(journal)]
    /\ driver \in [Attempts -> {"none", "running", "announced", "over"}]
    /\ log \in [Attempts -> {"none", "empty", "leaf", "rejected"}]
    /\ chain \in [Attempts -> {"absent", "pending", "included", "dropped"}]
    /\ current \in Tasks \cup {NoTask}

-----------------------------------------------------------------------------
IntentOf(a) == CHOOSE i \in Intents(journal) : journal[i].attempt = a

IsUsed(a) == \E i \in Intents(journal) : journal[i].attempt = a

(* What the journal says behind the intent at i of its task.               *)
Said(i) == {j \in DOMAIN journal : Resolves(journal, i, j)}

(* How the journal resolves an attempt: the first record behind its intent *)
(* that speaks of its task and is not a result.                            *)
Resolution(a) ==
    LET said == Said(IntentOf(a))
    IN  IF said = {} THEN "open"
        ELSE CASE journal[Min(said)].status = "included"      -> "done"
               [] journal[Min(said)].status = "not-submitted" -> "refused"
               [] OTHER                                       -> "open"

JournalState == [a \in Attempts |-> IF IsUsed(a) THEN Resolution(a) ELSE "unused"]

(* REFINEMENT: whatever ends when, the journal and the drivers implement   *)
(* VaultSubmissions: no attempt starts while another may still reach the   *)
(* chain, a refusal means that it never will, a confirmation that it did.  *)
Submissions == INSTANCE VaultSubmissions WITH state <- JournalState, wire <- chain

ImplementsSubmissions == Submissions!SubmissionSpec

(* SAFETY: the process that works on an attempt holds the lock, and the    *)
(* attempt is the only pending one; a driver runs, or a transaction waits, *)
(* for a pending attempt only, and its leaf was announced before.          *)
JournalInv ==
    /\ JournalTypeOK
    /\ Cardinality(Pending(journal)) <= 1
    /\ \A p \in Executors :
           /\ job[p] \in {"reconciling", "refused", "proving", "intended", "waiting", "answered"}
                  <=> p \in inside
           /\ job[p] = "proving" => Pending(journal) = {}
           /\ job[p] \in {"intended", "waiting", "answered"} =>
                  /\ Pending(journal) = {LastIntent}
                  /\ journal[LastIntent].task = task[p]
    /\ \A a \in Attempts :
           /\ driver[a] \in {"running", "announced"} \/ chain[a] = "pending" =>
                  JournalState[a] = "open"
           /\ log[a] = "rejected" => driver[a] = "over" /\ chain[a] = "absent"

(* SAFETY: a task reaches the chain once, although its attempts are        *)
(* repeated and it may be called for again.                                *)
NoTaskTwice ==
    \A a, b \in Attempts :
        (chain[a] = "included" /\ chain[b] = "included" /\ TaskOf(a) = TaskOf(b)) => a = b

(* From some time on no process ends.                                      *)
Settles == <>[][alive \subseteq alive']_journalVars

(* The leaf of a was kept, in its log or in a result.                      *)
LeafKept(a) ==
    log[a] = "leaf" \/ (IsUsed(a) /\ RecordedOutcome(IntentOf(a)) = "leaf")

(* LIVENESS: a broadcast the chain included is recorded by a process that  *)
(* runs, even if the parent of its driver ended before it could.           *)
InclusionIsRecorded ==
    Settles =>
        \A a \in Attempts :
            (chain[a] = "included" /\ LeafKept(a)) ~>
                (JournalState[a] = "done" \/ alive = {} \/ ~LeafKept(a))
=============================================================================
